---- MODULE Spec2Model ----
(***************************************************************************)
(* AI-Personality-Twin.                                                    *)
(*                                                                         *)
(*   backend/nlp/models.py    PersonalityAnalyzer (clean_text,             *)
(*                            analyze_sentiment, extract_traits,           *)
(*                            get_personality_summary, analyze_full)       *)
(*   backend/nlp/pipeline.py  NLPPipeline.process                          *)
(*   backend/utils/helpers.py validate_name, validate_text_input,          *)
(*                            calculate_profile_score                      *)
(*   backend/avatar/generator.py  AvatarGenerator                          *)
(*   backend/vision/emotion_detector.py  EmotionDetector                   *)
(*   app.py                   the "Analyze My Personality" handler         *)
(*                                                                         *)
(* Texts are TLA+ strings (sequences of characters).  Numbers that the     *)
(* program keeps as floats are kept exactly, as scaled integers:           *)
(*   - a confidence is held in tenths        (36.7  is 367),               *)
(*   - a polarity / subjectivity in thousandths (0.1 is 100),              *)
(*   - the points of a profile score in hundredths (18.8 is 1880).         *)
(* TextBlob is an external library: its polarity and subjectivity for the  *)
(* text are values the environment chooses the first time the program asks *)
(* for them, and the same values every later time (TextBlob is a function  *)
(* of the text).                                                           *)
(*                                                                         *)
(* The module holds one specification per part of the program; they share  *)
(* the variables, and each leaves the variables of the other parts at      *)
(* their idle values:                                                      *)
(*   Spec          the text analysis (extract_traits, process)             *)
(*   SpecScore     calculate_profile_score                                 *)
(*   SpecTraits    get_personality_summary, get_style_from_traits          *)
(*   SpecAvatar    generate_seed, generate_avatar_url                      *)
(*   SpecValidate  validate_name, validate_text_input                      *)
(*   SpecApp       the analyze requests of app.py                          *)
(*   SpecDb        the calls of Database                                   *)
(*   SpecDetect    the calls of EmotionDetector on an uploaded image       *)
(***************************************************************************)
EXTENDS Integers, Sequences, FiniteSets, TLC

VARIABLES
    text,          \* the input text of this run
    polarity,      \* <<>> until TextBlob(text).sentiment.polarity is first computed, then <<p>>
    subjectivity,  \* <<>> until TextBlob(text).sentiment.subjectivity is computed, then <<s>>
    extracted,     \* the maps returned by the direct calls of extract_traits, in call order
    result,        \* <<>> until NLPPipeline.process(text) has returned, then <<its result>>
    invoked,       \* the sub-analyzers process has invoked, in order
    raised,        \* the str() of the exception a sub-analyzer raised during process, if any
    escaped,       \* TRUE when an exception left process instead of a result
    score_args,    \* the trait_count and text_length the calls of calculate_profile_score share
    scored,        \* the calls of calculate_profile_score made, in order: argument and outcome
    trait_map,     \* a traits dict, as the sequence of its items in map order
    other_map,     \* a second traits dict with the same keys as trait_map
    av_name,       \* the name argument of the avatar calls
    av_emotion,    \* the emotion argument of the avatar calls
    summary_out,   \* <<>> until get_personality_summary(trait_map) has returned, then <<it>>
    style_out,     \* <<>> until get_style_from_traits(trait_map) has returned, then <<it>>
    seeds,         \* seeds[w]: <<>> until generate_seed was called for map w (1: trait_map,
                   \* 2: other_map), then <<the seed>>
    urls,          \* urls[w]: the same for generate_avatar_url
    name_in,       \* the name given to validate_name
    text_in,       \* the text given to validate_text_input
    name_check,    \* <<>> until validate_name(name_in) has returned, then <<its result>>
    text_check,    \* <<>> until validate_text_input(text_in) has returned, then <<its result>>
    db,            \* the rows of the table profiles, in insertion order
    db_seq,        \* sqlite_sequence: the largest id AUTOINCREMENT ever gave a row
    clock,         \* the current time, in whole seconds
    saved,         \* the direct calls of save_profile, in order: arguments and returned id
    deleted,       \* the ids delete_profile was called with
    last_call,     \* <<>>, or <<the last direct call of Database>>: arguments and result
    tmp_files,     \* the files in the temp directory that detect_emotion made
    tmp_made,      \* the number of temp files made so far
    detections,    \* the results of the direct calls of EmotionDetector, in order
    session_profiles,  \* st.session_state.profiles
    request,       \* <<>> before the first analyze request, then <<the last request>>: its
                   \* inputs, the calls it made in order, what it showed and computed
    requests       \* the number of analyze requests handled

nlpVars == <<text, polarity, subjectivity, extracted, result, invoked, raised, escaped>>
scoreVars == <<score_args, scored>>
avatarVars == <<trait_map, other_map, av_name, av_emotion, summary_out, style_out, seeds, urls>>
validateVars == <<name_in, text_in, name_check, text_check>>
fileVars == <<tmp_files, tmp_made, detections>>
appVars == <<db, db_seq, clock, saved, deleted, last_call, fileVars, session_profiles,
             request, requests>>

vars == <<nlpVars, scoreVars, avatarVars, validateVars, appVars>>

\* the variables of the parts other than the named one
exceptNlp == <<scoreVars, avatarVars, validateVars, appVars>>
exceptScore == <<nlpVars, avatarVars, validateVars, appVars>>
exceptAvatar == <<nlpVars, scoreVars, validateVars, appVars>>
exceptValidate == <<nlpVars, scoreVars, avatarVars, appVars>>
exceptApp == <<nlpVars, scoreVars, avatarVars, validateVars>>

(***************************************************************************)
(* The idle values: what a part's variables hold in the specifications of  *)
(* the other parts.                                                        *)
(***************************************************************************)
IdleNlp ==
    /\ text = ""
    /\ polarity = <<>>
    /\ subjectivity = <<>>
    /\ extracted = <<>>
    /\ result = <<>>
    /\ invoked = <<>>
    /\ raised = <<>>
    /\ escaped = FALSE

IdleScore ==
    /\ score_args = [trait_count |-> 0, text_length |-> 0]
    /\ scored = <<>>

IdleAvatar ==
    /\ trait_map = <<>>
    /\ other_map = <<>>
    /\ av_name = "user"
    /\ av_emotion = "neutral"
    /\ summary_out = <<>>
    /\ style_out = <<>>
    /\ seeds = <<<<>>, <<>>>>
    /\ urls = <<<<>>, <<>>>>

IdleValidate ==
    /\ name_in = ""
    /\ text_in = ""
    /\ name_check = <<>>
    /\ text_check = <<>>

IdleApp ==
    /\ db = <<>>
    /\ db_seq = 0
    /\ clock = 0
    /\ saved = <<>>
    /\ deleted = {}
    /\ last_call = <<>>
    /\ tmp_files = {}
    /\ tmp_made = 0
    /\ detections = <<>>
    /\ session_profiles = <<>>
    /\ request = <<>>
    /\ requests = 0

(***************************************************************************)
(* Bounds of the model.                                                    *)
(***************************************************************************)
\* the largest number of phrases of Phrases an input text is made of
MaxPhrases == 3
\* the largest number of direct calls of extract_traits on the same text
MaxCalls == 2

(***************************************************************************)
(* Characters.                                                             *)
(***************************************************************************)
LowerAlphabet == "abcdefghijklmnopqrstuvwxyz"
UpperAlphabet == "ABCDEFGHIJKLMNOPQRSTUVWXYZ"

CharAt(s, i) == SubSeq(s, i, i)

LowerLetters == { CharAt(LowerAlphabet, i) : i \in 1..Len(LowerAlphabet) }
UpperLetters == { CharAt(UpperAlphabet, i) : i \in 1..Len(UpperAlphabet) }

\* what Python's str.strip / str.split / the regex class \s take as whitespace
Whitespace == {" ", "\t", "\n", "\r"}

\* str.lower on one character (the input texts are ASCII)
LowerOf ==
    [c \in UpperLetters |->
        CharAt(LowerAlphabet, CHOOSE i \in 1..Len(UpperAlphabet) : CharAt(UpperAlphabet, i) = c)]

lower_char(c) == IF c \in UpperLetters THEN LowerOf[c] ELSE c

RECURSIVE lower(_)
lower(s) ==
    IF s = "" THEN ""
    ELSE lower_char(CharAt(s, 1)) \o lower(SubSeq(s, 2, Len(s)))

\* re.sub(r'[^a-z\s]', '', s): every character that is neither a-z nor whitespace is dropped
RECURSIVE sub_non_letters(_)
sub_non_letters(s) ==
    IF s = "" THEN ""
    ELSE LET c == CharAt(s, 1)
             rest == sub_non_letters(SubSeq(s, 2, Len(s)))
         IN  IF c \in LowerLetters \cup Whitespace THEN c \o rest ELSE rest

\* str.strip(): leading and trailing whitespace removed
RECURSIVE lstrip(_)
lstrip(s) ==
    IF s # "" /\ CharAt(s, 1) \in Whitespace THEN lstrip(SubSeq(s, 2, Len(s))) ELSE s

RECURSIVE rstrip(_)
rstrip(s) ==
    IF s # "" /\ CharAt(s, Len(s)) \in Whitespace THEN rstrip(SubSeq(s, 1, Len(s) - 1)) ELSE s

strip(s) == rstrip(lstrip(s))

\* str.split(): the maximal runs of non-whitespace characters, in order
RECURSIVE split_from(_, _)
split_from(s, word) ==
    IF s = "" THEN (IF word = "" THEN <<>> ELSE <<word>>)
    ELSE LET c == CharAt(s, 1)
             rest == SubSeq(s, 2, Len(s))
         IN  IF c \in Whitespace
             THEN (IF word = "" THEN <<>> ELSE <<word>>) \o split_from(rest, "")
             ELSE split_from(rest, word \o c)

split(s) == split_from(s, "")

\* PersonalityAnalyzer.clean_text
clean_text(t) == strip(sub_non_letters(lower(t)))

\* Python's `keyword in cleaned_text` on two strings: substring test
Contains(s, k) == \E i \in 1..(Len(s) - Len(k) + 1) : SubSeq(s, i, i + Len(k) - 1) = k

\* Python's `keyword in words` on a list: membership
InList(ws, k) == \E i \in 1..Len(ws) : ws[i] = k

(***************************************************************************)
(* The trait catalog.                                                      *)
(***************************************************************************)
\* the keys of TRAIT_KEYWORDS in the dict's (insertion) order
TRAITS ==
    <<"Creative", "Optimistic", "Friendly", "Analytical",
      "Adventurous", "Calm", "Energetic", "Empathetic">>

TRAIT_KEYWORDS ==
    [Creative |->
        <<"create", "imagine", "art", "design", "innovative", "original",
          "unique", "inventive", "artistic", "creative", "ideas", "inspire">>,
     Optimistic |->
        <<"happy", "positive", "hope", "bright", "excited", "love",
          "great", "wonderful", "amazing", "best", "enjoy", "passionate">>,
     Friendly |->
        <<"friend", "people", "help", "kind", "care", "social",
          "together", "team", "share", "support", "community", "connect">>,
     Analytical |->
        <<"think", "analyze", "logic", "reason", "solve", "strategy",
          "plan", "detail", "organize", "systematic", "data", "research">>,
     Adventurous |->
        <<"adventure", "explore", "travel", "new", "challenge", "risk",
          "bold", "brave", "discover", "experience", "outdoor", "journey">>,
     Calm |->
        <<"peace", "quiet", "relax", "calm", "serene", "tranquil",
          "meditate", "mindful", "balance", "harmony", "gentle", "patient">>,
     Energetic |->
        <<"energy", "active", "dynamic", "enthusiastic", "vigorous",
          "lively", "spirited", "fast", "action", "sport", "exercise">>,
     Empathetic |->
        <<"understand", "feel", "empathy", "compassion", "sensitive",
          "emotion", "listen", "care", "concern", "warm", "heart">>]

TraitNames == { TRAITS[i] : i \in 1..Len(TRAITS) }

(***************************************************************************)
(* Input texts: up to MaxPhrases of the phrases below, in this order,      *)
(* joined by single spaces.                                                *)
(***************************************************************************)
Phrases ==
    <<"  \t",                \* leading whitespace
      "I Create! art",       \* upper case and punctuation; "create" and "art" as tokens
      "recreate",            \* "create" only inside a longer token
      "artistic",            \* holds the keywords "artistic" and "art"
      "imagine, design ideas",
      "love and care",       \* "care" is a keyword of Friendly and of Empathetic
      "a calm plan",
      "fast travel",
      "12345 !?",            \* nothing survives normalisation
      "xyz qqq",             \* letters, no keyword
      "\n ">>                \* trailing whitespace

RECURSIVE Join(_, _)
Join(S, from) ==
    IF from > Len(Phrases) THEN ""
    ELSE IF from \in S
         THEN LET rest == Join(S, from + 1)
              IN  IF \E j \in S : j > from THEN Phrases[from] \o " " \o rest
                  ELSE Phrases[from]
         ELSE Join(S, from + 1)

Texts ==
    { Join(S, 1) : S \in { X \in SUBSET (1..Len(Phrases)) : Cardinality(X) <= MaxPhrases } }

(***************************************************************************)
(* PersonalityAnalyzer.extract_traits                                      *)
(***************************************************************************)
\* the nearest integer to a / b (b > 0), a tie going to the even one, as Python's round
RoundDiv(a, b) ==
    LET q == a \div b
        r == a % b
    IN  IF 2 * r < b THEN q
        ELSE IF 2 * r > b THEN q + 1
        ELSE IF q % 2 = 0 THEN q ELSE q + 1

\* a variant that gives a whole-word match no bonus
keyword_points_flat(keyword, words) == 1

\* the points one matching keyword adds: 2 when it is one of the words, else 1
keyword_points(keyword, words) == IF InList(words, keyword) THEN 2 ELSE 1

\* a variant that counts, of the keywords found one inside another, the longest only
RECURSIVE scan_keywords_longest_only(_, _, _, _)
scan_keywords_longest_only(keywords, i, cleaned_text, words) ==
    IF i > Len(keywords) THEN [score |-> 0, matches |-> 0]
    ELSE LET rest == scan_keywords_longest_only(keywords, i + 1, cleaned_text, words)
         IN  IF /\ Contains(cleaned_text, keywords[i])
                /\ ~\E j \in 1..Len(keywords) :
                        /\ j # i
                        /\ Contains(keywords[j], keywords[i])
                        /\ Contains(cleaned_text, keywords[j])
             THEN [score   |-> rest.score + keyword_points(keywords[i], words),
                   matches |-> rest.matches + 1]
             ELSE rest

\* the loop over one trait's keywords, from keyword i on: the raw score and the match count
RECURSIVE scan_keywords(_, _, _, _)
scan_keywords(keywords, i, cleaned_text, words) ==
    IF i > Len(keywords) THEN [score |-> 0, matches |-> 0]
    ELSE LET rest == scan_keywords(keywords, i + 1, cleaned_text, words)
         IN  IF Contains(cleaned_text, keywords[i])
             THEN [score   |-> rest.score + keyword_points(keywords[i], words),
                   matches |-> rest.matches + 1]
             ELSE rest

\* a variant that divides by 12 whatever the length of the keyword list
confidence_by_twelve(score, n) ==
    IF score * 1000 + 200 * 12 >= 1000 * 12 THEN 1000
    ELSE RoundDiv(score * 1000 + 200 * 12, 12)

\* round(min(100, (score / n) * 100 + 20), 1), in tenths
confidence(score, n) ==
    IF score * 1000 + 200 * n >= 1000 * n THEN 1000
    ELSE RoundDiv(score * 1000 + 200 * n, n)

\* the loop over the catalog, from trait i on: trait_scores as the dict's items in
\* insertion order
RECURSIVE score_traits(_, _, _)
score_traits(i, cleaned_text, words) ==
    IF i > Len(TRAITS) THEN <<>>
    ELSE LET keywords == TRAIT_KEYWORDS[TRAITS[i]]
             s == scan_keywords(keywords, 1, cleaned_text, words)
             rest == score_traits(i + 1, cleaned_text, words)
         IN  IF s.matches > 0
             THEN <<[trait |-> TRAITS[i], confidence |-> confidence(s.score, Len(keywords))]>>
                  \o rest
             ELSE rest

\* trait_scores when the loop has ended, before the fallback
trait_scores(t) == score_traits(1, clean_text(t), split(clean_text(t)))

\* a variant that takes a polarity of zero for positive
fallback_trait_nonneg(p) ==
    IF p >= 0 THEN <<[trait |-> "Optimistic", confidence |-> 600]>>
    ELSE <<[trait |-> "Calm", confidence |-> 500]>>

\* the default trait of a text with no match, from the polarity p of the raw text
fallback_trait(p) ==
    IF p > 0 THEN <<[trait |-> "Optimistic", confidence |-> 600]>>
    ELSE <<[trait |-> "Calm", confidence |-> 500]>>

\* a variant without reverse=True: ascending order
RECURSIVE insert_asc(_, _)
insert_asc(x, items) ==
    IF items = <<>> THEN <<x>>
    ELSE IF Head(items).confidence < x.confidence
         THEN <<Head(items)>> \o insert_asc(x, Tail(items))
         ELSE <<x>> \o items

\* a variant that is descending but not stable: of equal items the later one comes first
RECURSIVE insert_desc_ties_last(_, _)
insert_desc_ties_last(x, items) ==
    IF items = <<>> THEN <<x>>
    ELSE IF Head(items).confidence >= x.confidence
         THEN <<Head(items)>> \o insert_desc_ties_last(x, Tail(items))
         ELSE <<x>> \o items

\* x put into a list sorted by descending confidence, before the first item that is
\* not greater than it
RECURSIVE insert_desc(_, _)
insert_desc(x, items) ==
    IF items = <<>> THEN <<x>>
    ELSE IF Head(items).confidence > x.confidence
         THEN <<Head(items)>> \o insert_desc(x, Tail(items))
         ELSE <<x>> \o items

\* sorted(items, key=confidence, reverse=True): descending, and stable (items of equal
\* confidence keep their order)
RECURSIVE sorted_desc(_)
sorted_desc(items) ==
    IF items = <<>> THEN <<>>
    ELSE insert_desc(Head(items), sorted_desc(Tail(items)))

\* a variant without the cut
top_traits_uncut(items) == items

\* [:5]
top_traits(items) == SubSeq(items, 1, IF Len(items) < 5 THEN Len(items) ELSE 5)

\* extract_traits(t), p being the polarity TextBlob gives for t (read only when no trait
\* matched).  The returned dict is the sequence of its items.
\* what extract_traits does with trait_scores after the loop: the fallback, the sort and
\* the cut
rank_traits(scores, p) ==
    top_traits(sorted_desc(IF scores = <<>> THEN fallback_trait(p) ELSE scores))

\* trait_scores of every input text, computed once
TraitScores == [t \in Texts |-> trait_scores(t)]

extract_traits(t, p) == rank_traits(TraitScores[t], p)

(***************************************************************************)
(* PersonalityAnalyzer.analyze_sentiment, get_personality_summary,         *)
(* analyze_full                                                            *)
(***************************************************************************)
\* a variant whose thresholds are inclusive
analyze_sentiment_inclusive(p) ==
    IF p >= 100 THEN "Positive"
    ELSE IF p <= -100 THEN "Negative"
    ELSE "Neutral"

\* the label analyze_sentiment gives a text of polarity p (thousandths)
analyze_sentiment(p) ==
    IF p > 100 THEN "Positive"
    ELSE IF p < -100 THEN "Negative"
    ELSE "Neutral"

\* a variant that cuts the third decimal off, downwards
round2_down(x) == (x \div 10) * 10

\* round(x, 2) of a value held in thousandths, still in thousandths
round2(x) == RoundDiv(x, 10) * 10

\* sep.join(items)
RECURSIVE join(_, _)
join(sep, items) ==
    IF items = <<>> THEN ""
    ELSE IF Len(items) = 1 THEN items[1]
    ELSE items[1] \o sep \o join(sep, Tail(items))

\* a top_traits that keeps every name of the map
first_all(traits) == [i \in 1..Len(traits) |-> traits[i].trait]

\* list(traits.keys())[:3]
first_three(traits) ==
    [i \in 1..(IF Len(traits) < 3 THEN Len(traits) ELSE 3) |-> traits[i].trait]

get_personality_summary(traits) ==
    LET top == first_three(traits)
    IN  IF traits = <<>> THEN "Your personality is unique and multifaceted!"
        ELSE IF Len(top) = 1 THEN "You are primarily " \o top[1] \o "."
        ELSE IF Len(top) = 2 THEN "You are " \o top[1] \o " and " \o top[2] \o "."
        ELSE "You are " \o join(", ", SubSeq(top, 1, Len(top) - 1))
                 \o ", and " \o top[Len(top)] \o "."

\* the dict analyze_full(t) returns when nothing raises; p and s are TextBlob's polarity
\* and subjectivity for t
analyze_full(t, p, s) ==
    LET traits == extract_traits(t, p)
    IN  [sentiment    |-> analyze_sentiment(p),
         polarity     |-> round2(p),
         subjectivity |-> round2(s),
         traits       |-> traits,
         summary      |-> get_personality_summary(traits),
         word_count   |-> Len(split(t))]

\* the steps of analyze_full that can raise, in the order it takes them
SubAnalyzers ==
    <<"analyze_sentiment", "extract_traits", "get_personality_summary", "subjectivity">>

(***************************************************************************)
(* NLPPipeline.process                                                     *)
(***************************************************************************)
\* a variant that measures the text untrimmed
too_short_untrimmed(t) == t = "" \/ Len(t) < 10

\* `not text or len(text.strip()) < 10`
too_short(t) == t = "" \/ Len(strip(t)) < 10

too_short_result ==
    [error |-> "Text too short. Please provide at least 10 characters.", success |-> FALSE]

\* text[:500]
processed_text(t) == SubSeq(t, 1, IF Len(t) < 500 THEN Len(t) ELSE 500)

\* the try block's return: results with the success flag and the stored text added
process_results(results, t) ==
    [k \in DOMAIN results \cup {"success", "processed_text"} |->
        IF k = "success" THEN TRUE
        ELSE IF k = "processed_text" THEN processed_text(t)
        ELSE results[k]]

\* a variant without the try block: the exception leaves process
process_reraise(msg) == [escaped |-> TRUE, result |-> <<>>]

\* a variant whose error result carries default analytic fields
process_except_defaults(msg) ==
    [escaped |-> FALSE,
     result  |-> <<[error |-> "Analysis failed: " \o msg, success |-> FALSE,
                    sentiment |-> "Neutral", traits |-> <<>>]>>]

\* the except clause, for an exception whose str() is msg: what process hands its caller
process_except(msg) ==
    [escaped |-> FALSE,
     result  |-> <<[error |-> "Analysis failed: " \o msg, success |-> FALSE]>>]

(***************************************************************************)
(* TextBlob: the values it may give.                                       *)
(***************************************************************************)
Polarities == {-104, -100, 0, 1, 100, 104, 106}
Subjectivities == {0, 504}

\* the polarity TextBlob can give now: any, or the one it gave before for this text
BlobPolarity == IF polarity = <<>> THEN Polarities ELSE {polarity[1]}
BlobSubjectivity == IF subjectivity = <<>> THEN Subjectivities ELSE {subjectivity[1]}

(***************************************************************************)
(* The operations.                                                         *)
(***************************************************************************)
Init ==
    /\ text \in Texts
    /\ polarity = <<>>
    /\ subjectivity = <<>>
    /\ extracted = <<>>
    /\ result = <<>>
    /\ invoked = <<>>
    /\ raised = <<>>
    /\ escaped = FALSE
    /\ IdleScore
    /\ IdleAvatar
    /\ IdleValidate
    /\ IdleApp

\* a direct call PersonalityAnalyzer.extract_traits(text)
ExtractTraitsCall ==
    /\ Len(extracted) < MaxCalls
    /\ IF TraitScores[text] = <<>>
       THEN \E p \in BlobPolarity :
                /\ polarity' = <<p>>
                /\ extracted' = Append(extracted, extract_traits(text, p))
       ELSE /\ extracted' = Append(extracted, extract_traits(text, 0))
            /\ UNCHANGED polarity
    /\ UNCHANGED <<text, subjectivity, result, invoked, raised, escaped>>
    /\ UNCHANGED exceptNlp

\* the str() of the exceptions a sub-analyzer may raise
Messages == {"division by zero", "missing corpus"}

\* NLPPipeline.process(text)
Process ==
    /\ result = <<>>
    /\ ~escaped
    /\ IF too_short(text)
       THEN /\ result' = <<too_short_result>>
            /\ UNCHANGED <<polarity, subjectivity, invoked, raised, escaped>>
       ELSE \/ \E msg \in Messages :
                \* analyze_sentiment raises
                /\ invoked' = SubSeq(SubAnalyzers, 1, 1)
                /\ raised' = <<msg>>
                /\ result' = process_except(msg).result
                /\ escaped' = process_except(msg).escaped
                /\ UNCHANGED <<polarity, subjectivity>>
            \/ \E p \in BlobPolarity, failing \in 2..3, msg \in Messages :
                \* extract_traits or get_personality_summary raises
                /\ polarity' = <<p>>
                /\ invoked' = SubSeq(SubAnalyzers, 1, failing)
                /\ raised' = <<msg>>
                /\ result' = process_except(msg).result
                /\ escaped' = process_except(msg).escaped
                /\ UNCHANGED subjectivity
            \/ \E p \in BlobPolarity, msg \in Messages :
                \* TextBlob raises when asked for the subjectivity
                /\ polarity' = <<p>>
                /\ invoked' = SubAnalyzers
                /\ raised' = <<msg>>
                /\ result' = process_except(msg).result
                /\ escaped' = process_except(msg).escaped
                /\ UNCHANGED subjectivity
            \/ \E p \in BlobPolarity, s \in BlobSubjectivity :
                \* nothing raises
                /\ polarity' = <<p>>
                /\ subjectivity' = <<s>>
                /\ invoked' = SubAnalyzers
                /\ result' = <<process_results(analyze_full(text, p, s), text)>>
                /\ UNCHANGED <<raised, escaped>>
    /\ UNCHANGED <<text, extracted>>
    /\ UNCHANGED exceptNlp

Next ==
    \/ ExtractTraitsCall
    \/ Process

Spec == Init /\ [][Next]_vars

(***************************************************************************)
(* What the properties below read off a state.                             *)
(***************************************************************************)
Range(seq) == { seq[i] : i \in 1..Len(seq) }

\* the maps extract_traits has returned so far: to its direct callers and inside process
Returned ==
    Range(extracted)
        \cup (IF result # <<>> /\ result[1].success THEN {result[1].traits} ELSE {})

NamesOf(m) == { m[i].trait : i \in 1..Len(m) }

\* the length of t between its first and its last non-whitespace character
TrimmedLength(t) ==
    LET solid == { i \in 1..Len(t) : CharAt(t, i) \notin Whitespace }
    IN  IF solid = {} THEN 0
        ELSE (CHOOSE i \in solid : \A j \in solid : j <= i)
             - (CHOOSE i \in solid : \A j \in solid : j >= i) + 1

\* per input text and trait: the keywords that occur somewhere in the normalised text
KeywordsFound ==
    [t \in Texts |->
        LET cleaned == clean_text(t)
        IN  [tr \in TraitNames |-> { k \in Range(TRAIT_KEYWORDS[tr]) : Contains(cleaned, k) }]]

\* per input text and trait: the keywords that are one of the words of the normalised text
KeywordsAsWord ==
    [t \in Texts |->
        LET words == Range(split(clean_text(t)))
        IN  [tr \in TraitNames |-> Range(TRAIT_KEYWORDS[tr]) \cap words]]

\* the traits with at least one keyword match
Matched(t) == { tr \in TraitNames : KeywordsFound[t][tr] # {} }

\* 2 points for a keyword that is a word, 1 for a keyword found only inside a longer word
RawScore(t, tr) ==
    2 * Cardinality(KeywordsFound[t][tr] \cap KeywordsAsWord[t][tr])
        + Cardinality(KeywordsFound[t][tr] \ KeywordsAsWord[t][tr])

KeywordCount(tr) == Len(TRAIT_KEYWORDS[tr])

\* the place of a trait in the catalog
CatalogIndex(tr) == CHOOSE i \in 1..Len(TRAITS) : TRAITS[i] = tr

\* the confidence (tenths) the text gives a matched trait
MatchedConfidence(t, tr) == confidence(RawScore(t, tr), KeywordCount(tr))

AnalyticFields == {"sentiment", "polarity", "subjectivity", "traits", "summary", "word_count"}

(***************************************************************************)
(* C1  For every text of trimmed length >= 10, the map extract_traits      *)
(* returns is non-empty, has at most 5 entries, names only catalog traits  *)
(* (each at most once) and has every confidence in [0, 100].               *)
(***************************************************************************)
C1_TraitMapWellFormed ==
    \A m \in Returned :
        TrimmedLength(text) >= 10 =>
            /\ Len(m) >= 1
            /\ Len(m) <= 5
            /\ \A i \in 1..Len(m) :
                /\ m[i].trait \in TraitNames
                /\ m[i].confidence >= 0
                /\ m[i].confidence <= 1000
                /\ \A j \in 1..Len(m) : m[j].trait = m[i].trait => j = i

\* a text of 10 or more trimmed characters in which more than 5 traits match has been
\* analysed, directly and by process
C1_Witness ==
    /\ TrimmedLength(text) >= 10
    /\ Cardinality(Matched(text)) > 5
    /\ extracted # <<>>
    /\ result # <<>> /\ result[1].success

(***************************************************************************)
(* C2  When no catalog keyword occurs in the normalised text (also when    *)
(* normalisation leaves no word at all), extract_traits returns exactly    *)
(* one entry: Optimistic at 60.0 when the polarity of the raw text is      *)
(* strictly positive, otherwise Calm at 50.0.  When some keyword occurs    *)
(* the fallback is not taken: every entry is a trait with a match.         *)
(***************************************************************************)
C2_Fallback ==
    \A m \in Returned :
        IF Matched(text) = {}
        THEN /\ polarity # <<>>
             /\ polarity[1] > 0 => m = <<[trait |-> "Optimistic", confidence |-> 600]>>
             /\ polarity[1] <= 0 => m = <<[trait |-> "Calm", confidence |-> 500]>>
        ELSE NamesOf(m) \subseteq Matched(text)

\* the text of digits and punctuation only: no word is left, polarity zero, and
\* extract_traits has returned
C2_Witness ==
    /\ text = "12345 !?"
    /\ split(clean_text(text)) = <<>>
    /\ extracted # <<>>
    /\ polarity = <<0>>

(***************************************************************************)
(* C3  A keyword that is one of the whitespace-delimited words of the      *)
(* normalised text adds 2 raw points to its trait, a keyword found only    *)
(* inside a longer word adds 1; so "I create art" gives Creative a         *)
(* strictly higher confidence than "recreate".                             *)
(***************************************************************************)
C3_WholeWordBonus ==
    /\ \A m \in Returned : \A i \in 1..Len(m) :
        m[i].trait \in Matched(text) =>
            m[i].confidence = MatchedConfidence(text, m[i].trait)
    /\ \A m \in Returned :
        /\ text = "recreate" =>
            m = <<[trait |-> "Creative", confidence |-> confidence(1, 12)]>>
        /\ text = "I Create! art" =>
            /\ m = <<[trait |-> "Creative", confidence |-> confidence(4, 12)]>>
            /\ m[1].confidence > confidence(1, 12)

\* extract_traits has returned for a text with a whole-word keyword and a keyword that is
\* only part of a longer word, both of the same trait
C3_Witness ==
    /\ extracted # <<>>
    /\ \E tr \in TraitNames :
        /\ KeywordsFound[text][tr] \cap KeywordsAsWord[text][tr] # {}
        /\ KeywordsFound[text][tr] \ KeywordsAsWord[text][tr] # {}
        /\ tr \in NamesOf(extracted[1])

(***************************************************************************)
(* C4  The confidence of a matched trait is min(100, rawScore /            *)
(* keywordCount * 100 + 20) rounded to one decimal, keywordCount being     *)
(* 12 or 11; it is above 20, and it is 100 as soon as rawScore /           *)
(* keywordCount reaches 0.8.                                               *)
(***************************************************************************)
C4_ConfidenceFormula ==
    \A m \in Returned : \A i \in 1..Len(m) :
        LET tr == m[i].trait
            c == m[i].confidence
            raw == RawScore(text, tr)
            n == KeywordCount(tr)
        IN  tr \in Matched(text) =>
                /\ n \in {11, 12}
                /\ c > 200
                /\ IF 5 * raw >= 4 * n
                   THEN c = 1000
                   \* c / 10 is within 0.05 of raw / n * 100 + 20
                   ELSE /\ 2 * (c * n - (raw * 1000 + 200 * n)) <= n
                        /\ 2 * ((raw * 1000 + 200 * n) - c * n) <= n

\* a trait of 11 keywords is returned below the cap, and a trait whose raw score is 0.8 of
\* its keyword count or more is returned at 100
C4_Witness ==
    /\ extracted # <<>>
    /\ \E i \in 1..Len(extracted[1]) :
        /\ extracted[1][i].trait \in Matched(text)
        /\ KeywordCount(extracted[1][i].trait) = 11
        /\ extracted[1][i].confidence < 1000
    /\ \E i \in 1..Len(extracted[1]) :
        /\ extracted[1][i].trait \in Matched(text)
        /\ 5 * RawScore(text, extracted[1][i].trait) >= 4 * KeywordCount(extracted[1][i].trait)
        /\ extracted[1][i].confidence = 1000

(***************************************************************************)
(* C5  The returned map is in non-increasing confidence order.  With at    *)
(* most 5 matched traits it holds exactly the matched traits; with more,   *)
(* it holds 5 of them and no omitted matched trait has a confidence above  *)
(* a kept one.  A trait without a match appears only as the fallback.      *)
(***************************************************************************)
C5_RankedTopFive ==
    \A m \in Returned :
        /\ \A i \in 1..(Len(m) - 1) : m[i].confidence >= m[i + 1].confidence
        /\ Matched(text) # {} =>
            /\ NamesOf(m) \subseteq Matched(text)
            /\ IF Cardinality(Matched(text)) <= 5
               THEN /\ NamesOf(m) = Matched(text)
                    /\ Len(m) = Cardinality(Matched(text))
               ELSE /\ Len(m) = 5
                    /\ Cardinality(NamesOf(m)) = 5
                    /\ \A tr \in Matched(text) \ NamesOf(m) : \A i \in 1..Len(m) :
                        MatchedConfidence(text, tr) <= m[i].confidence

\* extract_traits has returned for a text with more than 5 matched traits of at least two
\* different confidences
C5_Witness ==
    /\ extracted # <<>>
    /\ Cardinality(Matched(text)) > 5
    /\ extracted[1][1].confidence > extracted[1][5].confidence

(***************************************************************************)
(* C6  Every call of extract_traits on the same text returns the same map, *)
(* entries in the same order; traits of equal confidence appear in the     *)
(* order of the trait catalog, and when a tie falls across the top-5 cut   *)
(* the traits earlier in the catalog are the ones kept.                    *)
(***************************************************************************)
C6_Deterministic ==
    /\ \A m1 \in Returned : \A m2 \in Returned : m1 = m2
    /\ \A m \in Returned : \A i \in 1..Len(m) : \A j \in 1..Len(m) :
        (i < j /\ m[i].confidence = m[j].confidence) =>
            CatalogIndex(m[i].trait) < CatalogIndex(m[j].trait)
    /\ \A m \in Returned : \A tr \in Matched(text) \ NamesOf(m) : \A i \in 1..Len(m) :
        MatchedConfidence(text, tr) = m[i].confidence =>
            CatalogIndex(m[i].trait) < CatalogIndex(tr)

\* extract_traits has run twice directly and once inside process on a text where a matched
\* trait is left out although it ties with the last one kept
C6_Witness ==
    /\ Len(extracted) >= 2
    /\ result # <<>> /\ result[1].success
    /\ \E tr \in Matched(text) \ NamesOf(extracted[1]) :
        MatchedConfidence(text, tr) = extracted[1][Len(extracted[1])].confidence

(***************************************************************************)
(* C7  For a text that is empty, whitespace-only or shorter than 10        *)
(* characters once trimmed, process returns success = false with an error  *)
(* text and invokes no sub-analyzer; for every other text it invokes the   *)
(* sub-analyzers (all of them unless one raises).                          *)
(***************************************************************************)
ProcessEnded == result # <<>> \/ escaped

C7_LengthGate ==
    ProcessEnded =>
        IF TrimmedLength(text) < 10
        THEN /\ result # <<>>
             /\ result[1].success = FALSE
             /\ "error" \in DOMAIN result[1]
             /\ result[1].error # ""
             /\ invoked = <<>>
             /\ raised = <<>>
        ELSE /\ invoked # <<>>
             /\ invoked[1] = "analyze_sentiment"
             /\ raised = <<>> => invoked = SubAnalyzers

\* process has returned for a text of 10 or more characters of which fewer than 10 are
\* left once it is trimmed
C7_Witness ==
    /\ result # <<>>
    /\ Len(text) >= 10
    /\ TrimmedLength(text) < 10
    /\ TrimmedLength(text) > 0

(***************************************************************************)
(* C8  (as stated) A failure raised by a sub-analyzer during process is    *)
(* caught and returned as a result with success = false whose error is     *)
(* the exception's message; none leaves process.                           *)
(***************************************************************************)
C8_ErrorIsMessage ==
    raised # <<>> =>
        /\ ~escaped
        /\ result # <<>>
        /\ result[1].success = FALSE
        /\ result[1].error = raised[1]

(***************************************************************************)
(* C8  (amended) A failure raised by a sub-analyzer during process is      *)
(* caught and returned as a result with success = false whose error is     *)
(* "Analysis failed: " followed by the exception's message; none leaves    *)
(* process.                                                                *)
(***************************************************************************)
C8_FailureBoundary ==
    /\ raised # <<>> =>
        /\ ~escaped
        /\ result # <<>>
        /\ result[1].success = FALSE
        /\ result[1].error = "Analysis failed: " \o raised[1]
    /\ ~escaped

\* the last step of analyze_full, the subjectivity, has raised and process has returned
C8_Witness ==
    /\ raised = <<"missing corpus">>
    /\ invoked = SubAnalyzers
    /\ result # <<>>

(***************************************************************************)
(* C9  A result of process with success = false carries none of the        *)
(* analytic fields (sentiment, polarity, subjectivity, traits, summary,    *)
(* word_count), on the too-short path and on the caught-failure path; a    *)
(* result with success = true carries all of them and no error.            *)
(***************************************************************************)
C9_FieldsBySuccess ==
    result # <<>> =>
        IF result[1].success
        THEN /\ AnalyticFields \subseteq DOMAIN result[1]
             /\ "error" \notin DOMAIN result[1]
        ELSE /\ DOMAIN result[1] \cap AnalyticFields = {}
             /\ "error" \in DOMAIN result[1]

\* process has returned a failure it caught after the sentiment and the traits had been
\* computed
C9_Witness ==
    /\ result # <<>>
    /\ result[1].success = FALSE
    /\ raised # <<>>
    /\ Len(invoked) >= 3

(***************************************************************************)
(* C10  analyze_sentiment labels a text Positive exactly when its polarity *)
(* is above 0.1, Negative exactly when it is below -0.1, Neutral           *)
(* otherwise: 0.1 and -0.1 themselves are Neutral.                         *)
(***************************************************************************)
C10_SentimentThresholds ==
    (result # <<>> /\ result[1].success) =>
        LET p == polarity[1]
            label == result[1].sentiment
        IN  /\ label \in {"Positive", "Negative", "Neutral"}
            /\ label = "Positive" <=> p > 100
            /\ label = "Negative" <=> p < -100
            /\ label = "Neutral" <=> (p >= -100 /\ p <= 100)

\* a text of polarity exactly 0.1 has been labelled
C10_Witness ==
    /\ result # <<>>
    /\ result[1].success
    /\ polarity = <<100>>
    /\ result[1].sentiment = "Neutral"

(***************************************************************************)
(* helpers.calculate_profile_score                                         *)
(*                                                                         *)
(* The points are held exactly, in hundredths.  The program computes them  *)
(* in binary floating point: an operation whose exact result has no binary *)
(* representation delivers a neighbouring double, a hair below or above    *)
(* the exact value (or the exact value itself, when the roundings cancel). *)
(* FloatErrors gives the signs that deviation may take; it is 0 when every *)
(* intermediate value is a binary fraction.  The deviation is far smaller  *)
(* than a hundredth, so it shows only where int() truncates a total whose  *)
(* exact value is a whole number.                                          *)
(***************************************************************************)
\* the largest number of calls of calculate_profile_score that are compared
MaxScoreCalls == 2

\* the sampled arguments: sentiment_score in thousandths, trait_count, text_length
ScorePolarities == {-1000, -990, -500, 10, 1000}
TraitCounts == {0, 1, 5, 10}
TextLengths == {0, 94, 1000}

Min(a, b) == IF a < b THEN a ELSE b
Max(a, b) == IF a > b THEN a ELSE b

\* a sentiment_points that is 40 * |sentiment_score|
sentiment_points_folded(sentiment_score) ==
    (IF sentiment_score < 0 THEN 0 - sentiment_score ELSE sentiment_score) * 4

\* sentiment_points = ((sentiment_score + 1) / 2) * 40, in hundredths
sentiment_points(sentiment_score) == (sentiment_score + 1000) * 2

\* trait_points = min(trait_count * 8, 40), in hundredths
trait_points(trait_count) == Min(trait_count * 8, 40) * 100

\* text_points = min((text_length / 100) * 20, 20), in hundredths
text_points(text_length) == Min(text_length * 20, 2000)

\* the sentiment_score (thousandths) is a binary fraction: a multiple of 1/8
BinaryPolarity(sentiment_score) == sentiment_score % 125 = 0

\* text_points is exact: text_length / 100 is a multiple of 1/4, or min() picks the 20
BinaryTextPoints(text_length) == text_length % 25 = 0 \/ text_length >= 100

\* the signs the float deviation of sentiment_points may take
SentimentErrors(sentiment_score) ==
    IF BinaryPolarity(sentiment_score) THEN {0} ELSE {-1, 0, 1}

\* the signs the float deviation of total_score may take
FloatErrors(sentiment_score, text_length) ==
    IF BinaryPolarity(sentiment_score) /\ BinaryTextPoints(text_length)
    THEN {0} ELSE {-1, 0, 1}

\* total_score = sentiment_points + trait_points + text_points, in hundredths
total_score(sentiment_score, trait_count, text_length) ==
    sentiment_points(sentiment_score) + trait_points(trait_count)
        + text_points(text_length)

\* int(min(100, max(0, total_score))), total_score deviating from its exact
\* value by a hair of sign float_error
calculate_profile_score(sentiment_score, trait_count, text_length, float_error) ==
    LET total == total_score(sentiment_score, trait_count, text_length)
    IN  IF total > 10000 \/ (total = 10000 /\ float_error >= 0) THEN 100
        ELSE IF total < 0 \/ (total = 0 /\ float_error <= 0) THEN 0
        ELSE IF total % 100 = 0 /\ float_error < 0 THEN (total \div 100) - 1
        ELSE total \div 100

InitScore ==
    /\ IdleNlp
    /\ IdleAvatar
    /\ IdleValidate
    /\ IdleApp
    /\ score_args \in [trait_count : TraitCounts, text_length : TextLengths]
    /\ scored = <<>>

\* a call calculate_profile_score(sentiment_score, trait_count, text_length)
ScoreCall ==
    /\ Len(scored) < MaxScoreCalls
    /\ \E p \in ScorePolarities :
       \E se \in SentimentErrors(p), fe \in FloatErrors(p, score_args.text_length) :
            scored' = Append(scored,
                [sentiment_score |-> p,
                 sentiment_points |-> [hundredths |-> sentiment_points(p), error |-> se],
                 score |-> calculate_profile_score(p, score_args.trait_count,
                                                   score_args.text_length, fe)])
    /\ UNCHANGED score_args
    /\ UNCHANGED exceptScore

NextScore == ScoreCall

SpecScore == InitScore /\ [][NextScore]_vars

(***************************************************************************)
(* C11, C12: the profile score.                                            *)
(***************************************************************************)
\* the truncation of the exact value of min(100, max(0, total_score))
ExactScore(sentiment_score, trait_count, text_length) ==
    Min(100, Max(0, total_score(sentiment_score, trait_count, text_length) \div 100))

\* a float a is below a float b
FloatLess(a, b) ==
    \/ a.hundredths < b.hundredths
    \/ a.hundredths = b.hundredths /\ a.error < b.error

\* C11: every call of calculate_profile_score returns the integer obtained by
\* truncating min(100, max(0, ((polarity + 1) / 2) * 40 + min(traitCount * 8, 40)
\* + min((textLength / 100) * 20, 20))); the result is an integer in [0, 100],
\* score(1, 10, 1000) is 100 and score(-1, 0, 0) is 0.
C11_TruncatedScore ==
    \A i \in 1..Len(scored) :
        /\ scored[i].score = ExactScore(scored[i].sentiment_score,
                                        score_args.trait_count, score_args.text_length)
        /\ scored[i].score \in 0..100
        /\ (scored[i].sentiment_score = 1000 /\ score_args.trait_count = 10
                /\ score_args.text_length = 1000) => scored[i].score = 100
        /\ (scored[i].sentiment_score = -1000 /\ score_args.trait_count = 0
                /\ score_args.text_length = 0) => scored[i].score = 0

\* C12: the sentiment component is strictly increasing in polarity, 0 at
\* polarity -1 and 40 at polarity 1, and with trait count and text length fixed
\* the score of a larger polarity is never below the score of a smaller one.
C12_MonotoneInPolarity ==
    /\ \A i \in 1..Len(scored) :
        /\ scored[i].sentiment_score = -1000
            => scored[i].sentiment_points = [hundredths |-> 0, error |-> 0]
        /\ scored[i].sentiment_score = 1000
            => scored[i].sentiment_points = [hundredths |-> 4000, error |-> 0]
    /\ \A i, j \in 1..Len(scored) :
        scored[i].sentiment_score < scored[j].sentiment_score
            => /\ FloatLess(scored[i].sentiment_points, scored[j].sentiment_points)
               /\ scored[i].score <= scored[j].score

\* two calls with different polarities, the larger one's total a whole number
\* that the float sum may fall short of
C12_Witness ==
    /\ Len(scored) = 2
    /\ scored[1].sentiment_score = -1000
    /\ scored[2].sentiment_score = -990
    /\ score_args = [trait_count |-> 1, text_length |-> 94]
    /\ scored[2].score = 26
    /\ scored[1].score = 26

(***************************************************************************)
(* avatar/generator.py: AvatarGenerator                                    *)
(*                                                                         *)
(* A traits dict is the sequence of its items [trait, confidence] in map   *)
(* order, the keys distinct.                                               *)
(***************************************************************************)
\* the largest number of items of a traits dict given to the summary and the style
MaxMapSize == 4
\* the largest number of items of the two dicts whose seeds and URLs are compared
MaxSeedTraits == 2

DICEBEAR_BASE_URL == "https://api.dicebear.com/7.x"

\* the items of the dict STYLE_MAPPING, in its order
STYLE_MAPPING ==
    << [key |-> "creative",    style |-> "avataaars"],
       [key |-> "optimistic",  style |-> "bottts"],
       [key |-> "friendly",    style |-> "big-smile"],
       [key |-> "analytical",  style |-> "personas"],
       [key |-> "adventurous", style |-> "adventurer"],
       [key |-> "calm",        style |-> "lorelei"],
       [key |-> "energetic",   style |-> "fun-emoji"],
       [key |-> "default",     style |-> "avataaars"] >>

\* STYLE_MAPPING[key]
style_of(key) ==
    STYLE_MAPPING[CHOOSE i \in 1..Len(STYLE_MAPPING) : STYLE_MAPPING[i].key = key].style

\* list(traits.keys())
trait_list(traits) == [i \in 1..Len(traits) |-> traits[i].trait]

\* the place of a letter in the order of the code points (A-Z before a-z)
Ord(c) ==
    LET letters == UpperAlphabet \o LowerAlphabet
    IN  CHOOSE i \in 1..Len(letters) : CharAt(letters, i) = c

\* a < b for two strings of letters: the order sorted() puts strings in
RECURSIVE str_less_from(_, _, _)
str_less_from(a, b, i) ==
    IF i > Len(a) THEN i <= Len(b)
    ELSE IF i > Len(b) THEN FALSE
    ELSE IF CharAt(a, i) = CharAt(b, i) THEN str_less_from(a, b, i + 1)
    ELSE Ord(CharAt(a, i)) < Ord(CharAt(b, i))

str_less(a, b) == str_less_from(a, b, 1)

\* x put into the ascending list names, after the items equal to it
RECURSIVE insert_name(_, _)
insert_name(x, names) ==
    IF names = <<>> THEN <<x>>
    ELSE IF str_less(x, Head(names)) THEN <<x>> \o names
    ELSE <<Head(names)>> \o insert_name(x, Tail(names))

\* a list of names left in the order given
names_as_given(names) == names

\* sorted(traits)
RECURSIVE sorted_names(_)
sorted_names(names) ==
    IF names = <<>> THEN <<>>
    ELSE insert_name(names[Len(names)], sorted_names(SubSeq(names, 1, Len(names) - 1)))

\* hashlib.md5(combined.encode()).hexdigest()[:10]: the digest is not computed; the
\* seed stands for it as a term over the hashed text, so that two seeds are equal
\* exactly when the hashed texts are
md5_prefix(combined) == "md5:" \o combined

\* a generate_seed that joins the names in the order given
generate_seed_unsorted(name, traits) == md5_prefix(name \o join("", traits))

\* AvatarGenerator.generate_seed(name, traits)
generate_seed(name, traits) == md5_prefix(name \o join("", sorted_names(traits)))

\* a max() that returns the last of the keys with the highest value
max_key_last(traits) ==
    traits[CHOOSE i \in 1..Len(traits) :
              /\ \A j \in 1..Len(traits) : traits[j].confidence <= traits[i].confidence
              /\ \A j \in (i + 1)..Len(traits) : traits[j].confidence < traits[i].confidence].trait

\* max(traits, key=lambda k: traits[k]): the first of the keys with the highest value
max_key(traits) ==
    traits[CHOOSE i \in 1..Len(traits) :
              /\ \A j \in 1..Len(traits) : traits[j].confidence <= traits[i].confidence
              /\ \A j \in 1..(i - 1) : traits[j].confidence < traits[i].confidence].trait

\* the loop over STYLE_MAPPING.items() from item i on
RECURSIVE style_from(_, _)
style_from(i, dominant_trait) ==
    IF i > Len(STYLE_MAPPING) THEN style_of("default")
    ELSE IF Contains(dominant_trait, STYLE_MAPPING[i].key) THEN STYLE_MAPPING[i].style
    ELSE style_from(i + 1, dominant_trait)

\* AvatarGenerator.get_style_from_traits(traits)
get_style_from_traits(traits) ==
    IF traits = <<>> THEN style_of("default")
    ELSE style_from(1, lower(max_key(traits)))

\* the params list of generate_avatar_url
url_params(seed, emotion) ==
    <<"seed=" \o seed, "size=200", "backgroundColor=b6e3f4,c0aede,d1d4f9">>
        \o (IF lower(emotion) = "happy" THEN <<"mood[]=happy">>
            ELSE IF lower(emotion) = "sad" THEN <<"mood[]=sad">>
            ELSE <<>>)

\* AvatarGenerator.generate_avatar_url(name, traits, emotion)
generate_avatar_url(name, traits, emotion) ==
    LET style == get_style_from_traits(traits)
        seed == generate_seed(name, trait_list(traits))
        url == DICEBEAR_BASE_URL \o "/" \o style \o "/svg"
    IN  url \o "?" \o join("&", url_params(seed, emotion))

\* the sampled traits dicts: up to n items, distinct keys among names
MapConfidences == {367, 533}

Maps(names, n) ==
    UNION { { m \in [1..k -> [trait : names, confidence : MapConfidences]] :
                \A i, j \in 1..k : i # j => m[i].trait # m[j].trait } : k \in 0..n }

MapTraits == {"Creative", "Optimistic", "Calm", "Empathetic", "Friendly"}
SeedTraits == {"Creative", "Calm", "Empathetic"}
AvatarNames == {"user", "Ada Lovelace"}
Emotions == {"Happy", "sad", "neutral"}

InitTraits ==
    /\ IdleNlp
    /\ IdleScore
    /\ IdleValidate
    /\ IdleApp
    /\ trait_map \in Maps(MapTraits, MaxMapSize)
    /\ other_map = <<>>
    /\ av_name = "user"
    /\ av_emotion = "neutral"
    /\ summary_out = <<>>
    /\ style_out = <<>>
    /\ seeds = <<<<>>, <<>>>>
    /\ urls = <<<<>>, <<>>>>

\* a call PersonalityAnalyzer.get_personality_summary(trait_map)
SummaryCall ==
    /\ summary_out = <<>>
    /\ summary_out' = <<get_personality_summary(trait_map)>>
    /\ UNCHANGED <<trait_map, other_map, av_name, av_emotion, style_out, seeds, urls>>
    /\ UNCHANGED exceptAvatar

\* a call AvatarGenerator.get_style_from_traits(trait_map)
StyleCall ==
    /\ style_out = <<>>
    /\ style_out' = <<get_style_from_traits(trait_map)>>
    /\ UNCHANGED <<trait_map, other_map, av_name, av_emotion, summary_out, seeds, urls>>
    /\ UNCHANGED exceptAvatar

NextTraits ==
    \/ SummaryCall
    \/ StyleCall

SpecTraits == InitTraits /\ [][NextTraits]_vars

\* the dict the calls numbered w are given
map_of(w) == IF w = 1 THEN trait_map ELSE other_map

InitAvatar ==
    /\ IdleNlp
    /\ IdleScore
    /\ IdleValidate
    /\ IdleApp
    /\ trait_map \in Maps(SeedTraits, MaxSeedTraits)
    /\ other_map \in { m \in Maps(SeedTraits, MaxSeedTraits) :
                        { m[i].trait : i \in 1..Len(m) }
                            = { trait_map[i].trait : i \in 1..Len(trait_map) } }
    /\ av_name \in AvatarNames
    /\ av_emotion \in Emotions
    /\ summary_out = <<>>
    /\ style_out = <<>>
    /\ seeds = <<<<>>, <<>>>>
    /\ urls = <<<<>>, <<>>>>

\* a call AvatarGenerator.generate_seed(av_name, list(keys)) for one of the two dicts
SeedCall ==
    /\ \E w \in 1..2 :
        /\ seeds[w] = <<>>
        /\ seeds' = [seeds EXCEPT ![w] = <<generate_seed(av_name, trait_list(map_of(w)))>>]
    /\ UNCHANGED <<trait_map, other_map, av_name, av_emotion, summary_out, style_out, urls>>
    /\ UNCHANGED exceptAvatar

\* a call AvatarGenerator.generate_avatar_url(av_name, dict, av_emotion) for one of the two
UrlCall ==
    /\ \E w \in 1..2 :
        /\ urls[w] = <<>>
        /\ urls' = [urls EXCEPT ![w] = <<generate_avatar_url(av_name, map_of(w), av_emotion)>>]
    /\ UNCHANGED <<trait_map, other_map, av_name, av_emotion, summary_out, style_out, seeds>>
    /\ UNCHANGED exceptAvatar

NextAvatar ==
    \/ SeedCall
    \/ UrlCall

SpecAvatar == InitAvatar /\ [][NextAvatar]_vars

(***************************************************************************)
(* C13 - C16: the summary, the avatar style, the seed and the URL.         *)
(***************************************************************************)
\* the trait names of the first n items of a dict (of all of them when it has fewer)
FirstNames(m, n) == [i \in 1..Min(n, Len(m)) |-> m[i].trait]

\* C13: get_personality_summary uses only the first three trait names in map
\* order: an empty map gives the generic sentence, one name "You are primarily
\* {a}.", two names "You are {a} and {b}.", three or more "You are {a}, {b}, and
\* {c}." with the first three names.
C13_SummaryOfFirstThree ==
    summary_out # <<>> =>
        LET n == Len(trait_map)
            top == FirstNames(trait_map, 3)
            s == summary_out[1]
        IN  /\ n = 0 => s = "Your personality is unique and multifaceted!"
            /\ n = 1 => s = "You are primarily " \o top[1] \o "."
            /\ n = 2 => s = "You are " \o top[1] \o " and " \o top[2] \o "."
            /\ n >= 3 => s = "You are " \o top[1] \o ", " \o top[2] \o ", and "
                                 \o top[3] \o "."

\* a dict of four items whose summary names the first three
C13_Witness ==
    /\ trait_map = << [trait |-> "Calm", confidence |-> 367],
                      [trait |-> "Creative", confidence |-> 533],
                      [trait |-> "Empathetic", confidence |-> 367],
                      [trait |-> "Optimistic", confidence |-> 533] >>
    /\ summary_out = <<"You are Calm, Creative, and Empathetic.">>

\* the style the table gives a trait name
StyleTable ==
    [Creative |-> "avataaars", Optimistic |-> "bottts", Friendly |-> "big-smile",
     Analytical |-> "personas", Adventurous |-> "adventurer", Calm |-> "lorelei",
     Energetic |-> "fun-emoji"]

DefaultStyle == "avataaars"

\* the trait with the highest confidence, the first in map order among equals
Dominant(m) ==
    LET top == { i \in 1..Len(m) : \A j \in 1..Len(m) : m[j].confidence <= m[i].confidence }
    IN  m[CHOOSE i \in top : \A j \in top : i <= j].trait

\* the style the dominant trait selects
StyleFor(m) ==
    IF m = <<>> THEN DefaultStyle
    ELSE IF Dominant(m) \in DOMAIN StyleTable THEN StyleTable[Dominant(m)]
    ELSE DefaultStyle

\* C14: get_style_from_traits selects the trait with the maximum confidence (the
\* first in map order on ties) and returns the style the table gives it; a
\* dominant trait without an entry (Empathetic) and an empty map select the default.
C14_StyleOfDominant ==
    style_out # <<>> =>
        /\ style_out[1] = StyleFor(trait_map)
        /\ trait_map = <<>> => style_out[1] = DefaultStyle
        /\ (trait_map # <<>> /\ Dominant(trait_map) = "Empathetic")
                => style_out[1] = DefaultStyle

\* two traits tie for the highest confidence and the first one's style is returned
C14_Witness ==
    /\ trait_map = << [trait |-> "Empathetic", confidence |-> 367],
                      [trait |-> "Calm", confidence |-> 533],
                      [trait |-> "Optimistic", confidence |-> 533] >>
    /\ style_out = <<"lorelei">>

\* C15: generate_seed(name, traits) does not depend on the order of the trait
\* list: two lists with the same names give the same seed.
C15_SeedIgnoresOrder ==
    (/\ seeds[1] # <<>>
     /\ seeds[2] # <<>>
     /\ Range(trait_list(trait_map)) = Range(trait_list(other_map)))
        => seeds[1] = seeds[2]

\* the seeds of two lists that hold the same two names in opposite orders
C15_Witness ==
    /\ trait_list(trait_map) = <<"Creative", "Calm">>
    /\ trait_list(other_map) = <<"Calm", "Creative">>
    /\ seeds[1] # <<>>
    /\ seeds[1] = seeds[2]

\* both URLs were generated, for two dicts with the same set of trait names
BothUrls ==
    /\ urls[1] # <<>>
    /\ urls[2] # <<>>
    /\ NamesOf(trait_map) = NamesOf(other_map)

\* C16: for a fixed name and emotion, generate_avatar_url returns the same URL
\* for any two trait maps with the same set of trait names, whatever their
\* confidences and map order.
C16_SameNamesSameUrl == BothUrls => urls[1] = urls[2]

\* C16 (amended): for a fixed name and emotion, the URLs of two trait maps with
\* the same set of trait names are the same exactly when the two maps select
\* the same style.
C16_SameNamesSameStyleSameUrl ==
    BothUrls => (urls[1] = urls[2] <=> StyleFor(trait_map) = StyleFor(other_map))

\* two dicts with the same names, other confidences and order, and the same dominant
\* trait: one URL
C16_Witness ==
    /\ trait_map = << [trait |-> "Creative", confidence |-> 367],
                      [trait |-> "Calm", confidence |-> 533] >>
    /\ other_map = << [trait |-> "Calm", confidence |-> 533],
                      [trait |-> "Creative", confidence |-> 533] >>
    /\ av_name = "Ada Lovelace"
    /\ av_emotion = "Happy"
    /\ urls[1] = <<"https://api.dicebear.com/7.x/lorelei/svg?seed=md5:Ada LovelaceCalmCreative&size=200&backgroundColor=b6e3f4,c0aede,d1d4f9&mood[]=happy">>
    /\ urls[2] = urls[1]

(***************************************************************************)
(* helpers.validate_name, helpers.validate_text_input                      *)
(***************************************************************************)
\* the string of n copies of s
RECURSIVE Repeat(_, _)
Repeat(s, n) ==
    IF n = 0 THEN ""
    ELSE LET half == Repeat(s, n \div 2)
         IN  half \o half \o (IF n % 2 = 1 THEN s ELSE "")

\* the characters the class [a-zA-Z\s\-'] matches
NameClass == LowerLetters \cup UpperLetters \cup Whitespace \cup {"-", "'"}

\* re.match(r"^[a-zA-Z\s\-']+$", name) finds a match
name_pattern_matches(name) ==
    /\ name # ""
    /\ \A i \in 1..Len(name) : CharAt(name, i) \in NameClass

\* helpers.validate_name(name)
validate_name(name) ==
    IF name = "" \/ Len(strip(name)) = 0
    THEN [valid |-> FALSE, message |-> "Name cannot be empty"]
    ELSE IF Len(name) < 2
    THEN [valid |-> FALSE, message |-> "Name must be at least 2 characters"]
    ELSE IF Len(name) > 50
    THEN [valid |-> FALSE, message |-> "Name must be less than 50 characters"]
    ELSE IF ~name_pattern_matches(name)
    THEN [valid |-> FALSE,
          message |-> "Name can only contain letters, spaces, hyphens, and apostrophes"]
    ELSE [valid |-> TRUE, message |-> ""]

\* a validate_text_input that measures the minimum on the text as given
validate_text_input_untrimmed(t) ==
    IF t = "" \/ Len(strip(t)) = 0
    THEN [valid |-> FALSE, message |-> "Please provide some text to analyze"]
    ELSE IF Len(t) < 10
    THEN [valid |-> FALSE, message |-> "Text must be at least 10 characters"]
    ELSE IF Len(t) > 5000
    THEN [valid |-> FALSE, message |-> "Text is too long (maximum 5000 characters)"]
    ELSE [valid |-> TRUE, message |-> ""]

\* helpers.validate_text_input(text), min_length left at its default 10
validate_text_input(t) ==
    IF t = "" \/ Len(strip(t)) = 0
    THEN [valid |-> FALSE, message |-> "Please provide some text to analyze"]
    ELSE IF Len(strip(t)) < 10
    THEN [valid |-> FALSE, message |-> "Text must be at least 10 characters"]
    ELSE IF Len(t) > 5000
    THEN [valid |-> FALSE, message |-> "Text is too long (maximum 5000 characters)"]
    ELSE [valid |-> TRUE, message |-> ""]

\* the sampled names
NameInputs ==
    { "", " ", "  ", "a", "-", "7", "ab", "Al", "a1", "a\tb", "ab\n", "O'Neil-Smith Jr",
      "Ada Lovelace", "R2-D2", "a_b", " x", "--",
      Repeat("a", 50), Repeat("a", 51), Repeat("ab ", 17), Repeat("a1", 26),
      Repeat(" ", 51) }

\* the sampled texts
TextInputs ==
    { "", "   ", Repeat(" ", 12), "short", "   love     ", "I Create!", "I Create! art",
      "0123456789", " 123456789", "\n0123456789\t",
      Repeat("a", 5000), Repeat("a", 5001),
      " " \o Repeat("a", 4999) \o "  ", "   love  " \o Repeat("-", 4991) \o "     a" }

InitValidate ==
    /\ IdleNlp
    /\ IdleScore
    /\ IdleAvatar
    /\ IdleApp
    /\ name_in \in NameInputs
    /\ text_in \in TextInputs
    /\ name_check = <<>>
    /\ text_check = <<>>

\* a call validate_name(name_in)
ValidateName ==
    /\ name_check = <<>>
    /\ name_check' = <<validate_name(name_in)>>
    /\ UNCHANGED <<name_in, text_in, text_check>>
    /\ UNCHANGED exceptValidate

\* a call validate_text_input(text_in)
ValidateText ==
    /\ text_check = <<>>
    /\ text_check' = <<validate_text_input(text_in)>>
    /\ UNCHANGED <<name_in, text_in, name_check>>
    /\ UNCHANGED exceptValidate

NextValidate ==
    \/ ValidateName
    \/ ValidateText

SpecValidate == InitValidate /\ [][NextValidate]_vars

(***************************************************************************)
(* C19, C20: the validation of the name and of the text.                   *)
(***************************************************************************)
\* the characters a name may hold: letters, the space, the hyphen, the apostrophe
NameCharacters == LowerLetters \cup UpperLetters \cup {" ", "-", "'"}

\* the messages of the rules a name breaks
BrokenNameRules(name) ==
    { r \in { "Name cannot be empty",
              "Name must be at least 2 characters",
              "Name must be less than 50 characters",
              "Name can only contain letters, spaces, hyphens, and apostrophes" } :
        \/ r = "Name cannot be empty"
            /\ \A i \in 1..Len(name) : CharAt(name, i) \in Whitespace
        \/ r = "Name must be at least 2 characters" /\ Len(name) < 2
        \/ r = "Name must be less than 50 characters" /\ Len(name) > 50
        \/ r = "Name can only contain letters, spaces, hyphens, and apostrophes"
            /\ \E i \in 1..Len(name) : CharAt(name, i) \notin NameCharacters }

\* C19: validate_name accepts a name exactly when it is 2 to 50 characters long
\* and holds only letters, spaces, hyphens and apostrophes, and rejects every
\* other name with the message of a rule the name breaks (empty, too short, too
\* long, illegal characters).
C19_NameRules ==
    name_check # <<>> =>
        /\ name_check[1].valid
            <=> /\ Len(name_in) >= 2
                /\ Len(name_in) <= 50
                /\ \A i \in 1..Len(name_in) : CharAt(name_in, i) \in NameCharacters
        /\ ~name_check[1].valid => name_check[1].message \in BrokenNameRules(name_in)

\* no character of the text is solid (not whitespace)
Blank(t) == \A i \in 1..Len(t) : CharAt(t, i) \in Whitespace

\* the length of a text that is not blank, from its first to its last solid character
SolidLength(t) ==
    (CHOOSE i \in 1..Len(t) :
        /\ CharAt(t, i) \notin Whitespace
        /\ \A j \in (i + 1)..Len(t) : CharAt(t, j) \in Whitespace)
    - (CHOOSE i \in 1..Len(t) :
        /\ CharAt(t, i) \notin Whitespace
        /\ \A j \in 1..(i - 1) : CharAt(t, j) \in Whitespace) + 1

\* the message each kind of rejected text gets
TextMessageIsOfTheRule ==
    LET r == text_check[1]
    IN  /\ Blank(text_in) => r.message = "Please provide some text to analyze"
        /\ (~Blank(text_in) /\ SolidLength(text_in) < 10)
                => r.message = "Text must be at least 10 characters"
        /\ (~Blank(text_in) /\ SolidLength(text_in) >= 10 /\ Len(text_in) > 5000)
                => r.message = "Text is too long (maximum 5000 characters)"

\* C20: validate_text_input accepts a text exactly when it is 10 to 5000
\* characters long, rejects empty or whitespace-only, too short and too long
\* texts each with its own message, and every accepted text passes the length
\* gate of process.
C20_TextLengthRule ==
    text_check # <<>> =>
        /\ text_check[1].valid <=> (Len(text_in) >= 10 /\ Len(text_in) <= 5000)
        /\ ~text_check[1].valid => TextMessageIsOfTheRule
        /\ text_check[1].valid => ~too_short(text_in)

\* C20 (amended): validate_text_input accepts a text exactly when its length
\* without the leading and trailing whitespace is at least 10 and its length as
\* given is at most 5000; it rejects empty or whitespace-only, too short and too
\* long texts each with its own message, and every accepted text passes the
\* length gate of process.
C20_TrimmedMinimumRawMaximum ==
    text_check # <<>> =>
        /\ text_check[1].valid
            <=> (~Blank(text_in) /\ SolidLength(text_in) >= 10 /\ Len(text_in) <= 5000)
        /\ ~text_check[1].valid => TextMessageIsOfTheRule
        /\ text_check[1].valid => (text_check[1].message = "" /\ ~too_short(text_in))

\* a text of 12 characters, 4 without the surrounding whitespace, was rejected as
\* too short
C20_Witness ==
    /\ text_in = "   love     "
    /\ text_check = <<[valid |-> FALSE, message |-> "Text must be at least 10 characters"]>>

(***************************************************************************)
(* db/database.py: Database                                                *)
(*                                                                         *)
(* The table profiles is the sequence of its rows in insertion order.  Its *)
(* id column is INTEGER PRIMARY KEY AUTOINCREMENT: SQLite keeps the        *)
(* largest id it ever gave in sqlite_sequence (db_seq).  created_at is     *)
(* CURRENT_TIMESTAMP, a time in whole seconds (clock).  The trait map is   *)
(* stored as the text json.dumps makes of it; a confidence (in tenths) is  *)
(* written as Python writes the number.                                    *)
(***************************************************************************)
Digits == "0123456789"

\* str(n) for a natural number n
RECURSIVE int_str(_)
int_str(n) ==
    IF n < 10 THEN CharAt(Digits, n + 1)
    ELSE int_str(n \div 10) \o CharAt(Digits, (n % 10) + 1)

\* int(s) for a string of digits
RECURSIVE parse_int(_)
parse_int(s) ==
    IF s = "" THEN 0
    ELSE parse_int(SubSeq(s, 1, Len(s) - 1)) * 10
            + ((CHOOSE i \in 1..10 : CharAt(Digits, i) = CharAt(s, Len(s))) - 1)

\* the text json.dumps writes for a confidence: the float's repr, and "100" for the
\* 100 that min(100, ...) returns (an int)
number_repr(tenths) ==
    IF tenths = 1000 THEN "100"
    ELSE int_str(tenths \div 10) \o "." \o int_str(tenths % 10)

\* the place of the first occurrence of sub in s, 0 when there is none
find(s, sub) ==
    LET places == { i \in 1..(Len(s) - Len(sub) + 1) : SubSeq(s, i, i + Len(sub) - 1) = sub }
    IN  IF places = {} THEN 0 ELSE CHOOSE i \in places : \A j \in places : i <= j

\* the number json.loads reads, in tenths
parse_number(s) ==
    LET dot == find(s, ".")
    IN  IF dot = 0 THEN parse_int(s) * 10
        ELSE parse_int(SubSeq(s, 1, dot - 1)) * 10 + parse_int(SubSeq(s, dot + 1, Len(s)))

\* the items of a dict as json.dumps writes them: "key": value, joined by ", "
RECURSIVE dumps_items(_)
dumps_items(traits) ==
    IF traits = <<>> THEN ""
    ELSE "\"" \o traits[1].trait \o "\": " \o number_repr(traits[1].confidence)
            \o (IF Len(traits) > 1 THEN ", " ELSE "") \o dumps_items(Tail(traits))

\* a json.dumps that writes the keys in sorted order (sort_keys=True)
json_dumps_sorted(traits) ==
    LET keys == sorted_names(trait_list(traits))
    IN  "{" \o dumps_items([i \in 1..Len(keys) |->
                CHOOSE item \in Range(traits) : item.trait = keys[i]]) \o "}"

\* json.dumps(personality_traits)
json_dumps(traits) == "{" \o dumps_items(traits) \o "}"

\* the items json.loads reads from the inside of an object
RECURSIVE loads_items(_)
loads_items(body) ==
    LET colon == find(body, ": ")
        comma == find(body, ", ")
        last == IF comma = 0 THEN Len(body) ELSE comma - 1
        item == [trait |-> SubSeq(body, 2, colon - 2),
                 confidence |-> parse_number(SubSeq(body, colon + 2, last))]
    IN  IF comma = 0 THEN <<item>>
        ELSE <<item>> \o loads_items(SubSeq(body, comma + 2, Len(body)))

\* json.loads(row[3])
json_loads(s) ==
    IF s = "{}" THEN <<>> ELSE loads_items(SubSeq(s, 2, Len(s) - 1))

\* the largest id among the rows, 0 for an empty table
max_id(rows) ==
    IF rows = <<>> THEN 0
    ELSE CHOOSE m \in { rows[i].id : i \in 1..Len(rows) } :
            \A i \in 1..Len(rows) : rows[i].id <= m

\* the id of a plain INTEGER PRIMARY KEY: one more than the largest id in the table
next_id_of_table(rows, seq) == max_id(rows) + 1

\* the id AUTOINCREMENT gives a new row: one more than the largest id ever given
next_id(rows, seq) == Max(max_id(rows), seq) + 1

\* Database.save_profile: the row inserted into profiles
new_row(rows, seq, now, name, text_input, traits, emotion, sentiment_score, avatar_url) ==
    [id |-> next_id(rows, seq), name |-> name, text_input |-> text_input,
     personality_traits |-> json_dumps(traits), emotion |-> emotion,
     sentiment_score |-> sentiment_score, avatar_url |-> avatar_url,
     created_at |-> now]

\* an INSERT that is executed twice
save_profile_twice(rows, row) == Append(Append(rows, row), row)

\* Database.save_profile: the table after the INSERT of the row
save_profile(rows, row) == Append(rows, row)

\* the dict get_profile and get_all_profiles make of a row
profile_of(row) ==
    [id |-> row.id, name |-> row.name, text_input |-> row.text_input,
     personality_traits |-> json_loads(row.personality_traits),
     emotion |-> row.emotion, sentiment_score |-> row.sentiment_score,
     avatar_url |-> row.avatar_url, created_at |-> row.created_at]

\* the rows a SELECT ... WHERE id = ? finds
rows_with_id(rows, profile_id) == SelectSeq(rows, LAMBDA row : row.id = profile_id)

\* Database.get_profile(profile_id): <<>> for None, else <<the dict>>
get_profile(rows, profile_id) ==
    IF rows_with_id(rows, profile_id) = <<>> THEN <<>>
    ELSE <<profile_of(rows_with_id(rows, profile_id)[1])>>

\* Database.delete_profile(profile_id): the table after the DELETE, and rowcount > 0
delete_profile(rows, profile_id) ==
    [rows |-> SelectSeq(rows, LAMBDA row : row.id # profile_id),
     deleted |-> rows_with_id(rows, profile_id) # <<>>]

\* the rows in the order of the places given
rows_in_order(rows, order) == [i \in 1..Len(rows) |-> rows[order[i]]]

\* the orders ORDER BY created_at DESC allows: rows with equal created_at may come in
\* any order
orders_by_created_at_desc(rows) ==
    { order \in [1..Len(rows) -> 1..Len(rows)] :
        /\ \A i, j \in 1..Len(rows) : i # j => order[i] # order[j]
        /\ \A i, j \in 1..Len(rows) :
                i < j => rows[order[i]].created_at >= rows[order[j]].created_at }

\* LIMIT ?: the first limit rows, every row for a negative limit
limit_rows(rows, limit) ==
    IF limit < 0 THEN rows ELSE SubSeq(rows, 1, Min(limit, Len(rows)))

\* Database.get_all_profiles(limit): the lists of dicts the query can return
get_all_profiles(rows, limit) ==
    { [i \in 1..Len(limit_rows(rows, limit)) |->
            profile_of(limit_rows(rows_in_order(rows, order), limit)[i])] :
        order \in orders_by_created_at_desc(rows) }

\* Database.get_stats
get_stats(rows) ==
    [total_profiles |-> Len(rows),
     emotion_distribution |->
        [e \in { rows[i].emotion : i \in 1..Len(rows) } |->
            Cardinality({ i \in 1..Len(rows) : rows[i].emotion = e })]]

(***************************************************************************)
(* vision/emotion_detector.py: EmotionDetector                             *)
(*                                                                         *)
(* cv2 and DeepFace are external: whether the uploaded bytes decode, and   *)
(* what DeepFace.analyze does with the image, are choices of the           *)
(* environment.  A score of DeepFace is a percentage held in thousandths.  *)
(***************************************************************************)
\* EMOTION_EMOJIS.get(emotion.lower(), the neutral emoji); an emoji is held by its name
emoji_of(emotion) ==
    IF lower(emotion) \in {"happy", "sad", "angry", "surprise", "fear", "disgust", "neutral"}
    THEN "emoji:" \o lower(emotion)
    ELSE "emoji:neutral"

\* emotions.get(dominant_emotion, 0.0) if emotions else 0.0
score_of(emotions, dominant_emotion) ==
    IF \E i \in 1..Len(emotions) : emotions[i].label = dominant_emotion
    THEN emotions[CHOOSE i \in 1..Len(emotions) : emotions[i].label = dominant_emotion].score
    ELSE 0

\* the sampled analyses of a face by DeepFace
Analyses ==
    << [dominant_emotion |-> "happy",
        emotion |-> << [label |-> "happy", score |-> 97314],
                       [label |-> "neutral", score |-> 2686] >>],
       [dominant_emotion |-> "sad",
        emotion |-> << [label |-> "sad", score |-> 61005],
                       [label |-> "fear", score |-> 38995] >>] >>

\* what the body of detect_emotion may meet once the temp file is there: an exception
\* (of cv2.imwrite or DeepFace.analyze; at names the call that raised it), a list of
\* analyses (empty when there is no face) or one analysis
DeepFaceOutcomes ==
    { [kind |-> "raises", at |-> "imwrite",
       message |-> "(-215:Assertion failed) !_img.empty() in function imwrite",
       faces |-> <<>>],
      [kind |-> "raises", at |-> "analyze",
       message |-> "Face could not be processed", faces |-> <<>>],
      [kind |-> "list", at |-> "", message |-> "", faces |-> <<>>],
      [kind |-> "list", at |-> "", message |-> "", faces |-> Analyses],
      [kind |-> "dict", at |-> "", message |-> "", faces |-> <<Analyses[2]>>] }

\* the name tempfile.NamedTemporaryFile(suffix='.jpg', delete=False) gives its file: a
\* name no file has
temp_name(made) == "/tmp/tmp" \o int_str(made + 1) \o ".jpg"

\* the temp files when the with block is left: the new file is there (delete=False),
\* whether cv2.imwrite returned or raised
files_after_with(files, made, outcome) == files \cup {temp_name(made)}

\* image_path when the with block is left: <<>> for None.  It is assigned after
\* cv2.imwrite has returned
image_path_after_with(made, outcome) ==
    IF outcome.kind = "raises" /\ outcome.at = "imwrite" THEN <<>>
    ELSE <<temp_name(made)>>

\* if image_array is not None and image_path: os.unlink(image_path)
unlink_temp(files, image_path) ==
    IF image_path = <<>> THEN files ELSE files \ {image_path[1]}

\* the temp files when detect_emotion(image_array=image) returns: each of its three
\* ways out (no face, success, except) runs the same guarded os.unlink
detect_emotion_files(files, made, outcome) ==
    unlink_temp(files_after_with(files, made, outcome), image_path_after_with(made, outcome))

\* the number of temp files made when detect_emotion(image_array=image) returns
detect_emotion_made(made, outcome) == made + 1

\* the dict a detection that meets exception e returns (the except clause)
detect_except(message) ==
    [success |-> FALSE, error |-> message, dominant_emotion |-> "neutral",
     emoji |-> "emoji:neutral",
     message |-> "Could not detect face. Using neutral emotion."]

\* EmotionDetector.detect_emotion(image_array=image), DeepFace's part being outcome
detect_emotion(outcome) ==
    IF outcome.kind = "raises" THEN detect_except(outcome.message)
    ELSE IF outcome.kind = "list" /\ outcome.faces = <<>>
    THEN [success |-> FALSE, error |-> "No face detected", dominant_emotion |-> "neutral",
          emoji |-> "emoji:neutral",
          message |-> "Could not detect face. Using neutral emotion."]
    ELSE LET analysis == outcome.faces[1]
             emotions == analysis.emotion
             dominant_emotion == analysis.dominant_emotion
         IN  [success |-> TRUE, dominant_emotion |-> dominant_emotion,
              all_emotions |-> emotions, emoji |-> emoji_of(dominant_emotion),
              confidence |-> round2(score_of(emotions, dominant_emotion))]

\* what cv2.imdecode makes of the uploaded bytes: nothing (None) or an image; "none"
\* stands for no upload
Photos == {"none", "undecodable", "image"}

\* EmotionDetector.detect_from_bytes(image_bytes)
detect_from_bytes(photo, outcome) ==
    IF photo = "undecodable"
    THEN [success |-> FALSE, error |-> "Could not decode image",
          dominant_emotion |-> "neutral", emoji |-> "emoji:neutral"]
    ELSE detect_emotion(outcome)

\* the temp files when detect_from_bytes returns
detect_from_bytes_files(files, made, photo, outcome) ==
    IF photo = "undecodable" THEN files ELSE detect_emotion_files(files, made, outcome)

\* the number of temp files made when detect_from_bytes returns
detect_from_bytes_made(made, photo, outcome) ==
    IF photo = "undecodable" THEN made ELSE detect_emotion_made(made, outcome)

(***************************************************************************)
(* app.py: the handler of the button "Analyze My Personality"              *)
(*                                                                         *)
(* One action is one click: the whole handler.  The request records the    *)
(* calls the handler made, in order, and what it showed the user.          *)
(***************************************************************************)
\* the largest number of analyze requests
MaxRequests == 2

\* the sampled inputs of the form
AppNames == {"Ada Lovelace", "A1"}
AppTexts == {"recreate", "I Create! art", "love and care a calm plan"}
\* the values TextBlob may give the polarity and the subjectivity of a text
AppPolarities == {0, 404}
AppSubjectivities == {604}

\* st.error / st.success: what the user is shown (the leading icon written "[x]", "[v]")
st_error(message) == [kind |-> "error", text |-> "[x] " \o message]
st_success(message) == [kind |-> "success", text |-> "[v] " \o message]

\* the results NLPPipeline.process(text) may return (see Process)
process_outcomes(t) ==
    IF too_short(t) THEN {too_short_result}
    ELSE { process_except(msg).result[1] : msg \in Messages }
         \cup { process_results(analyze_full(t, p, s), t) :
                    p \in AppPolarities, s \in AppSubjectivities }

\* process_outcomes of each text a request may carry, worked out once
ProcessOutcomes == [t \in AppTexts |-> process_outcomes(t)]

\* what the detection of this request may meet
detection_outcomes(photo) ==
    IF photo = "image" THEN DeepFaceOutcomes
    ELSE { [kind |-> "unused", message |-> "", faces |-> <<>>] }

\* the dict the handler puts in the place of a missing or failed detection
neutral_emotion == [dominant_emotion |-> "neutral", emoji |-> "emoji:neutral", confidence |-> 0]

\* a handler that keeps the dict of a failed detection
emotion_or_neutral_on_none(detected) ==
    IF detected = <<>> THEN neutral_emotion ELSE detected[1]

\* "if not emotion_result or not emotion_result.get('success')": the emotion_result used
emotion_or_neutral(detected) ==
    IF detected = <<>> \/ ~detected[1].success THEN neutral_emotion ELSE detected[1]

\* the trait maps and the emotions a request may reach generate_avatar_url with
AppTraitMaps ==
    { r.traits : r \in { o \in UNION { ProcessOutcomes[t] : t \in AppTexts } : o.success } }
AppEmotions ==
    { emotion_or_neutral(<<detect_emotion(o)>>).dominant_emotion : o \in DeepFaceOutcomes }
        \cup {neutral_emotion.dominant_emotion}

\* generate_avatar_url for each of them, worked out once
AvatarUrls ==
    [name \in AppNames, traits \in AppTraitMaps, emotion \in AppEmotions |->
        generate_avatar_url(name, traits, emotion)]

\* the request before the handler has done more than validate
validated_request(name, text_input, photo) ==
    [name |-> name, text_input |-> text_input, photo |-> photo,
     steps |-> <<"validate_name", "validate_text_input">>,
     shown |-> <<>>, nlp_results |-> <<>>, detected |-> <<>>, emotion_result |-> <<>>,
     avatar_url |-> <<>>, profile_score |-> <<>>, profile_id |-> <<>>]

InitApp ==
    /\ IdleNlp
    /\ IdleScore
    /\ IdleAvatar
    /\ IdleValidate
    /\ db = <<>>
    /\ db_seq = 0
    /\ clock = 0
    /\ saved = <<>>
    /\ deleted = {}
    /\ last_call = <<>>
    /\ tmp_files = {}
    /\ tmp_made = 0
    /\ detections = <<>>
    /\ session_profiles = <<>>
    /\ request = <<>>
    /\ requests = 0

\* a click on "Analyze My Personality" (app.py 151-289)
Analyze ==
    /\ requests < MaxRequests
    /\ requests' = requests + 1
    /\ \E name \in AppNames, text_input \in AppTexts, photo \in Photos :
        LET name_check_ == validate_name(name)
            text_check_ == validate_text_input(text_input)
            begun == validated_request(name, text_input, photo)
        IN  IF ~name_check_.valid
            THEN /\ request' = <<[begun EXCEPT !.shown = <<st_error(name_check_.message)>>]>>
                 /\ UNCHANGED <<db, db_seq, session_profiles, tmp_files, tmp_made>>
            ELSE IF ~text_check_.valid
            THEN /\ request' = <<[begun EXCEPT !.shown = <<st_error(text_check_.message)>>]>>
                 /\ UNCHANGED <<db, db_seq, session_profiles, tmp_files, tmp_made>>
            ELSE \E nlp_results \in ProcessOutcomes[text_input] :
                IF ~nlp_results.success
                THEN /\ request' = <<[begun EXCEPT
                                        !.steps = @ \o <<"process">>,
                                        !.nlp_results = <<nlp_results>>,
                                        !.shown = <<st_error(nlp_results.error)>>]>>
                     /\ UNCHANGED <<db, db_seq, session_profiles, tmp_files, tmp_made>>
                ELSE \E outcome \in detection_outcomes(photo),
                        float_error \in FloatErrors(nlp_results.polarity, Len(text_input)) :
                    LET detected == IF photo = "none" THEN <<>>
                                    ELSE <<detect_from_bytes(photo, outcome)>>
                        emotion_result == emotion_or_neutral(detected)
                        avatar_url == AvatarUrls[name, nlp_results.traits,
                                                emotion_result.dominant_emotion]
                        profile_score == calculate_profile_score(nlp_results.polarity,
                                             Len(nlp_results.traits), Len(text_input),
                                             float_error)
                        row == new_row(db, db_seq, clock, name, text_input, nlp_results.traits,
                                       emotion_result.dominant_emotion,
                                       nlp_results.polarity, avatar_url)
                    IN  /\ tmp_files' = IF photo = "none" THEN tmp_files
                                         ELSE detect_from_bytes_files(tmp_files, tmp_made,
                                                                      photo, outcome)
                        /\ tmp_made' = IF photo = "none" THEN tmp_made
                                        ELSE detect_from_bytes_made(tmp_made, photo, outcome)
                        /\ db' = save_profile(db, row)
                        /\ db_seq' = row.id
                        /\ session_profiles' = Append(session_profiles,
                                [id |-> row.id, name |-> name, avatar_url |-> avatar_url,
                                 traits |-> nlp_results.traits, score |-> profile_score])
                        /\ request' = <<[begun EXCEPT
                                !.steps = @ \o <<"process">>
                                            \o (IF photo = "none" THEN <<>>
                                                ELSE <<"detect_from_bytes">>)
                                            \o <<"generate_avatar_url", "calculate_profile_score",
                                                 "save_profile", "session_append">>,
                                !.nlp_results = <<nlp_results>>,
                                !.detected = detected,
                                !.emotion_result = <<emotion_result>>,
                                !.avatar_url = <<avatar_url>>,
                                !.profile_score = <<profile_score>>,
                                !.profile_id = <<row.id>>,
                                !.shown = <<st_success("Analysis Complete!")>>]>>
    /\ UNCHANGED <<clock, saved, deleted, last_call, detections>>
    /\ UNCHANGED exceptApp

NextApp == Analyze

SpecApp == InitApp /\ [][NextApp]_vars

(***************************************************************************)
(* C17, C18: the analyze request.                                          *)
(***************************************************************************)
\* the text analysis of the last request succeeded
AnalysisSucceeded ==
    /\ request # <<>>
    /\ request[1].nlp_results # <<>>
    /\ request[1].nlp_results[1].success

\* the last request had no photo, or its detection failed
DetectionFailedOrAbsent ==
    \/ request[1].photo = "none"
    \/ request[1].detected # <<>> /\ ~request[1].detected[1].success

\* the last request ended with its profile as the newest row of the table
ProfileSaved ==
    /\ request[1].profile_id # <<>>
    /\ db # <<>>
    /\ db[Len(db)].id = request[1].profile_id[1]
    /\ db[Len(db)].name = request[1].name
    /\ db[Len(db)].text_input = request[1].text_input

\* C17: in an analyze request whose text analysis succeeded, every failing
\* emotion detection (undecodable bytes, no face, the detector raising) and the
\* absence of a photo give the dominant emotion "neutral" with confidence 0; the
\* request completes and saves the profile, and no emotion error is shown.
C17_FailedDetectionIsNeutral ==
    (AnalysisSucceeded /\ DetectionFailedOrAbsent) =>
        /\ request[1].emotion_result # <<>>
        /\ request[1].emotion_result[1].dominant_emotion = "neutral"
        /\ "confidence" \in DOMAIN request[1].emotion_result[1]
        /\ request[1].emotion_result[1].confidence = 0
        /\ ProfileSaved
        /\ db[Len(db)].emotion = "neutral"
        /\ request[1].shown = <<st_success("Analysis Complete!")>>

\* the detector raised on a decodable photo and the profile was saved as neutral
C17_Witness ==
    /\ AnalysisSucceeded
    /\ request[1].photo = "image"
    /\ request[1].detected # <<>>
    /\ ~request[1].detected[1].success
    /\ request[1].detected[1].error = "Face could not be processed"
    /\ ProfileSaved
    /\ db[Len(db)].emotion = "neutral"

\* the places of a call in the calls of a request
Places(steps, call) == { i \in 1..Len(steps) : steps[i] = call }

\* the calls of the last request are in the order the claim gives
CallsInOrder ==
    LET r == request[1]
    IN  /\ \A i \in 1..Len(r.steps) :
            r.steps[i] \in {"process", "detect_from_bytes", "generate_avatar_url"}
                => /\ Places(r.steps, "validate_name") # {}
                   /\ Places(r.steps, "validate_text_input") # {}
                   /\ \A j \in Places(r.steps, "validate_name")
                            \cup Places(r.steps, "validate_text_input") : j < i
                   /\ validate_name(r.name).valid
                   /\ validate_text_input(r.text_input).valid
        /\ Cardinality(Places(r.steps, "save_profile")) <= 1
        /\ \A i \in Places(r.steps, "save_profile") :
                /\ AnalysisSucceeded
                /\ \E j \in Places(r.steps, "process") : j < i

\* the request that has just ended failed its validation or its analysis
RequestFailed(r) ==
    \/ ~validate_name(r.name).valid
    \/ ~validate_text_input(r.text_input).valid
    \/ r.nlp_results # <<>> /\ ~r.nlp_results[1].success

\* what a request may do to the stored profiles and the session list
StoredByRequest ==
    /\ Len(db') <= Len(db) + 1
    /\ SubSeq(db', 1, Len(db)) = db
    /\ Len(db') = Len(db) + 1
        => /\ request'[1].nlp_results # <<>>
           /\ request'[1].nlp_results[1].success
           /\ Places(request'[1].steps, "save_profile") # {}
    /\ RequestFailed(request'[1]) => (db' = db /\ session_profiles' = session_profiles)

\* C18: within one analyze request the analysis, the emotion detection and the
\* avatar generation run only after both validations have passed; a profile is
\* inserted at most once and only after the analysis returned success=true; a
\* validation or analysis failure leaves the stored profiles and the session
\* list unchanged.
C18_RequestOrder ==
    /\ [](request # <<>> => CallsInOrder)
    /\ [][StoredByRequest]_vars

\* a second request failed its analysis after a first one had stored a profile
C18_Witness ==
    /\ requests = 2
    /\ Len(db) = 1
    /\ Len(session_profiles) = 1
    /\ request[1].steps = <<"validate_name", "validate_text_input", "process">>
    /\ request[1].shown = <<st_error("Analysis failed: missing corpus")>>

(***************************************************************************)
(* SpecDb: the calls of Database on one database file, in any order, while *)
(* time passes.                                                            *)
(***************************************************************************)
MaxSaves == 2
MaxClock == 1

\* the profiles given to save_profile
DbProfiles ==
    { [name |-> "Ada Lovelace", text_input |-> "I Create! art",
       personality_traits |-> <<[trait |-> "Creative", confidence |-> 367],
                                [trait |-> "Calm", confidence |-> 1000]>>,
       emotion |-> "happy", sentiment_score |-> 500,
       avatar_url |-> "https://api.dicebear.com/7.x/bottts/svg?seed=1a2b3c4d"],
      [name |-> "Bo", text_input |-> "a calm plan",
       personality_traits |-> <<[trait |-> "Calm", confidence |-> 500]>>,
       emotion |-> "neutral", sentiment_score |-> 0,
       avatar_url |-> "https://api.dicebear.com/7.x/avataaars/svg?seed=9f8e7d6c"] }

\* the ids asked for
DbIds == 1..MaxSaves

\* the limits asked for
Limits == 0..MaxSaves

InitDb ==
    /\ IdleNlp
    /\ IdleScore
    /\ IdleAvatar
    /\ IdleValidate
    /\ IdleApp

\* a call of save_profile
SaveProfile ==
    /\ Len(saved) < MaxSaves
    /\ \E p \in DbProfiles :
        LET row == new_row(db, db_seq, clock, p.name, p.text_input, p.personality_traits,
                           p.emotion, p.sentiment_score, p.avatar_url)
        IN  /\ db' = save_profile(db, row)
            /\ db_seq' = row.id
            /\ saved' = Append(saved, [id |-> row.id, args |-> p])
            /\ deleted' = deleted \ {row.id}
            /\ last_call' = <<[op |-> "save_profile", before |-> db, result |-> row.id]>>
    /\ UNCHANGED <<clock, session_profiles, request, requests>>
    /\ UNCHANGED fileVars
    /\ UNCHANGED exceptApp

\* a call of get_profile
GetProfile ==
    /\ \E profile_id \in DbIds :
        last_call' = <<[op |-> "get_profile", before |-> db, profile_id |-> profile_id,
                        result |-> get_profile(db, profile_id)]>>
    /\ UNCHANGED <<db, db_seq, clock, saved, deleted, session_profiles, request, requests>>
    /\ UNCHANGED fileVars
    /\ UNCHANGED exceptApp

\* a call of get_all_profiles
GetAllProfiles ==
    /\ \E limit \in Limits :
        \E profiles \in get_all_profiles(db, limit) :
            last_call' = <<[op |-> "get_all_profiles", before |-> db, limit |-> limit,
                            result |-> profiles]>>
    /\ UNCHANGED <<db, db_seq, clock, saved, deleted, session_profiles, request, requests>>
    /\ UNCHANGED fileVars
    /\ UNCHANGED exceptApp

\* a call of get_stats
GetStats ==
    /\ last_call' = <<[op |-> "get_stats", before |-> db, result |-> get_stats(db)]>>
    /\ UNCHANGED <<db, db_seq, clock, saved, deleted, session_profiles, request, requests>>
    /\ UNCHANGED fileVars
    /\ UNCHANGED exceptApp

\* a call of delete_profile
DeleteProfile ==
    /\ \E profile_id \in DbIds :
        /\ db' = delete_profile(db, profile_id).rows
        /\ deleted' = deleted \cup {profile_id}
        /\ last_call' = <<[op |-> "delete_profile", before |-> db,
                           profile_id |-> profile_id,
                           result |-> delete_profile(db, profile_id).deleted]>>
    /\ UNCHANGED <<db_seq, clock, saved, session_profiles, request, requests>>
    /\ UNCHANGED fileVars
    /\ UNCHANGED exceptApp

\* a second passes
Tick ==
    /\ clock < MaxClock
    /\ clock' = clock + 1
    /\ UNCHANGED <<db, db_seq, saved, deleted, last_call, session_profiles, request,
                   requests>>
    /\ UNCHANGED fileVars
    /\ UNCHANGED exceptApp

NextDb ==
    \/ SaveProfile
    \/ GetProfile
    \/ GetAllProfiles
    \/ GetStats
    \/ DeleteProfile
    \/ Tick

SpecDb == InitDb /\ [][NextDb]_vars

\* the last call was the given operation
LastCall(op) == last_call # <<>> /\ last_call[1].op = op

\* C21: the ids returned by save_profile are pairwise distinct and strictly
\* increasing in call order, whatever was deleted in between
C21_IdsIncrease ==
    \A i, j \in 1..Len(saved) : i < j => saved[i].id < saved[j].id

\* a profile was saved into a table emptied by deleting the only (highest) id
C21_Witness ==
    /\ LastCall("save_profile")
    /\ Len(saved) = 2
    /\ last_call[1].before = <<>>
    /\ saved[1].id \in deleted
    /\ last_call[1].result = saved[2].id

\* the ids of the profiles of a result list
IdsOf(profiles) == [i \in 1..Len(profiles) |-> profiles[i].id]

\* the ids of the last n rows saved, newest first
NewestIds(rows, n) == [i \in 1..Min(n, Len(rows)) |-> rows[Len(rows) + 1 - i].id]

\* C22: get_all_profiles(limit) returns at most limit profiles, the most recently
\* saved ones, newest first, also when they were saved within the same second
C22_NewestFirst ==
    LastCall("get_all_profiles") =>
        /\ Len(last_call[1].result) <= last_call[1].limit
        /\ IdsOf(last_call[1].result) = NewestIds(last_call[1].before, last_call[1].limit)

\* save_profile returned the id and delete_profile was not called with it since
Live(profile_id) ==
    /\ profile_id \notin deleted
    /\ \E i \in 1..Len(saved) : saved[i].id = profile_id

\* the arguments of the last save_profile call that returned the id
GivenTo(profile_id) ==
    LET calls == { i \in 1..Len(saved) : saved[i].id = profile_id }
    IN  saved[CHOOSE i \in calls : \A j \in calls : j <= i].args

\* the fields of a profile dict that save_profile takes as arguments
SavedFields(profile) ==
    [name |-> profile.name, text_input |-> profile.text_input,
     personality_traits |-> profile.personality_traits, emotion |-> profile.emotion,
     sentiment_score |-> profile.sentiment_score, avatar_url |-> profile.avatar_url]

\* the result of get_profile is the profile given to the save that returned the id,
\* and None for an id that is not live
ReadsBack(found, profile_id) ==
    IF Live(profile_id)
    THEN Len(found) = 1 /\ found[1].id = profile_id
            /\ SavedFields(found[1]) = GivenTo(profile_id)
    ELSE found = <<>>

\* every id reads back what was saved under it, and so did the last get_profile
ProfilesReadBack ==
    /\ \A profile_id \in DbIds : ReadsBack(get_profile(db, profile_id), profile_id)
    /\ LastCall("get_profile")
        => ReadsBack(last_call[1].result, last_call[1].profile_id)

\* the step is a call of delete_profile
DeleteCalled ==
    /\ last_call' # <<>>
    /\ last_call'[1].op = "delete_profile"
    /\ \/ ~LastCall("delete_profile")
       \/ last_call[1].profile_id # last_call'[1].profile_id
       \/ last_call[1].before # last_call'[1].before

\* a delete_profile step returns whether the id was live and leaves the others alone
DeleteStep ==
    DeleteCalled =>
        /\ last_call'[1].result = Live(last_call'[1].profile_id)
        /\ \A other \in DbIds \ {last_call'[1].profile_id} :
                get_profile(db', other) = get_profile(db, other)

\* C23: get_profile(id) returns exactly what was given to the save_profile call that
\* returned id (trait map with the same names, confidences and order) unless
\* delete_profile(id) was called since, and None then; delete_profile(id) returns
\* true exactly when the profile existed and removes no other profile
C23_ReadBackAndDelete ==
    /\ []ProfilesReadBack
    /\ [][DeleteStep]_vars

\* a two-trait profile is read back after another one, saved before it, was deleted
C23_Witness ==
    /\ LastCall("get_profile")
    /\ last_call[1].result # <<>>
    /\ Len(last_call[1].result[1].personality_traits) = 2
    /\ last_call[1].result[1].personality_traits[1].trait = "Creative"
    /\ last_call[1].profile_id = 2
    /\ deleted = {1}
    /\ Len(db) = 1

(***************************************************************************)
(* Overlapping keyword hits                                                *)
(***************************************************************************)
\* the traits whose keyword list holds the keyword
TraitsListing(keyword) ==
    { tr \in TraitNames : keyword \in Range(TRAIT_KEYWORDS[tr]) }

\* the found keywords of a trait that lie inside another found keyword of the trait
InsideAnother(t, tr) ==
    { k \in KeywordsFound[t][tr] :
        \E longer \in KeywordsFound[t][tr] : longer # k /\ Contains(longer, k) }

\* C24: every keyword is scored on its own: a keyword that is a substring of a word
\* adds its points although a longer keyword of the same trait matched the same word
\* ("artistic" gives Creative 2 + 1), and a keyword listed under two traits ("care")
\* adds its points to both
C24_OverlappingHitsAllCount ==
    \A m \in Returned :
        /\ \A i \in 1..Len(m) :
            LET tr == m[i].trait
            IN  tr \in Matched(text) =>
                    m[i].confidence =
                        confidence(2 * Cardinality(KeywordsAsWord[text][tr])
                                     + Cardinality(KeywordsFound[text][tr]
                                                        \ KeywordsAsWord[text][tr]),
                                   KeywordCount(tr))
        /\ text = "artistic" =>
            /\ KeywordsFound[text]["Creative"] = {"artistic", "art"}
            /\ m = <<[trait |-> "Creative", confidence |-> confidence(2 + 1, 12)]>>
        /\ text = "love and care" =>
            /\ TraitsListing("care") = {"Friendly", "Empathetic"}
            /\ [trait |-> "Friendly", confidence |-> confidence(2, 12)] \in Range(m)
            /\ [trait |-> "Empathetic", confidence |-> confidence(2, 11)] \in Range(m)
        /\ Cardinality(Matched(text)) <= 5 =>
            \A tr \in TraitNames : \A k \in KeywordsFound[text][tr] :
                TraitsListing(k) \subseteq NamesOf(m)

\* extract_traits has returned for a text with a word that holds two keywords of one
\* trait, one inside the other, and a keyword that two traits list
C24_Witness ==
    /\ extracted # <<>>
    /\ InsideAnother(text, "Creative") = {"art"}
    /\ "care" \in KeywordsFound[text]["Friendly"] \cap KeywordsFound[text]["Empathetic"]
    /\ {"Creative", "Friendly", "Empathetic"} \subseteq NamesOf(extracted[1])

(***************************************************************************)
(* The label and the reported polarity of one result                       *)
(***************************************************************************)
\* process has returned a successful result
Analysed == result # <<>> /\ result[1].success

\* C25 as stated: the label of a successful result is Positive exactly when the
\* polarity reported in it (2 decimals) is above 0.1, Negative exactly when it is
\* below -0.1, Neutral otherwise
C25_LabelOfReportedPolarity ==
    Analysed =>
        /\ result[1].sentiment = "Positive" <=> result[1].polarity > 100
        /\ result[1].sentiment = "Negative" <=> result[1].polarity < -100
        /\ result[1].sentiment = "Neutral"
                <=> (result[1].polarity >= -100 /\ result[1].polarity <= 100)

\* C25: the label follows the thresholds on the unrounded polarity, the reported
\* polarity is that value rounded to 2 decimals; so a reported polarity above 0.1 goes
\* with Positive, one below -0.1 with Negative, one strictly between with Neutral,
\* and a reported 0.1 (-0.1) goes with Positive (Negative) or Neutral
C25_LabelOfUnroundedPolarity ==
    Analysed =>
        LET p == polarity[1]
            reported == result[1].polarity
            label == result[1].sentiment
        IN  /\ reported % 10 = 0
            /\ reported - p <= 5
            /\ p - reported <= 5
            /\ label = "Positive" <=> p > 100
            /\ label = "Negative" <=> p < -100
            /\ reported > 100 => label = "Positive"
            /\ reported < -100 => label = "Negative"
            /\ (reported > -100 /\ reported < 100) => label = "Neutral"
            /\ reported = 100 => label \in {"Positive", "Neutral"}
            /\ reported = -100 => label \in {"Negative", "Neutral"}

\* a polarity of 0.104 was labelled Positive and reported as 0.1
C25_Witness ==
    /\ Analysed
    /\ polarity = <<104>>
    /\ result[1].polarity = 100
    /\ result[1].sentiment = "Positive"

(***************************************************************************)
(* SpecDetect: the calls of EmotionDetector with an image array, and with  *)
(* uploaded bytes.                                                         *)
(***************************************************************************)
MaxDetections == 3

InitDetect ==
    /\ IdleNlp
    /\ IdleScore
    /\ IdleAvatar
    /\ IdleValidate
    /\ IdleApp

\* a call detect_emotion(image_array=image)
DetectEmotion ==
    /\ Len(detections) < MaxDetections
    /\ \E outcome \in DeepFaceOutcomes :
        /\ detections' = Append(detections, detect_emotion(outcome))
        /\ tmp_files' = detect_emotion_files(tmp_files, tmp_made, outcome)
        /\ tmp_made' = detect_emotion_made(tmp_made, outcome)
    /\ UNCHANGED <<db, db_seq, clock, saved, deleted, last_call, session_profiles, request,
                   requests>>
    /\ UNCHANGED exceptApp

\* a call detect_from_bytes(image_bytes)
DetectFromBytes ==
    /\ Len(detections) < MaxDetections
    /\ \E photo \in Photos \ {"none"}, outcome \in DeepFaceOutcomes :
        /\ detections' = Append(detections, detect_from_bytes(photo, outcome))
        /\ tmp_files' = detect_from_bytes_files(tmp_files, tmp_made, photo, outcome)
        /\ tmp_made' = detect_from_bytes_made(tmp_made, photo, outcome)
    /\ UNCHANGED <<db, db_seq, clock, saved, deleted, last_call, session_profiles, request,
                   requests>>
    /\ UNCHANGED exceptApp

NextDetect ==
    \/ DetectEmotion
    \/ DetectFromBytes

SpecDetect == InitDetect /\ [][NextDetect]_vars

\* C26: when detect_emotion has returned, no temp file it made for an image array is
\* left, whichever way it returned: success, no face, or an error after the file was
\* made (also one raised while the image was written)
C26_NoTempFileLeft ==
    tmp_files = {}

====
